---- MODULE Spec2Model ----
(***************************************************************************)
(* Model of the pact broker Durable Object (PactBrokerDO): its SQLite      *)
(* tables as sequences of rows (the row id is the position, tables are     *)
(* AUTOINCREMENT and no operation deletes), one action per broker          *)
(* operation, and the clock behind datetime('now'), which has a            *)
(* resolution of one second.                                               *)
(***************************************************************************)
EXTENDS Integers, Sequences, FiniteSets, TLC

VARIABLES pacticipants, versions, tags, pacts, verifications,
          environments, deployedVersions, now, ret, instance

tables == <<pacticipants, versions, tags, pacts, verifications,
            environments, deployedVersions>>
vars == <<pacticipants, versions, tags, pacts, verifications,
          environments, deployedVersions, now, ret, instance>>

\* ------------------------------------------------------------------ bounds
MaxTime == 1
MaxPacts == 2
MaxVerifications == 2
MaxDeployments == 3
MaxTags == 2
MaxStarts == 2

\* ------------------------------------------------------------ input values
\* SQL NULL / an argument left undefined. A column or argument that holds a
\* string holds NULL or a non-empty string; "" and undefined are both falsy
\* in every test the operations make (if (toTag), if (version && ...)).
NULL == "NULL"
\* An optional argument left out, where the code tells it from null
\* (displayName !== undefined against displayName ?? ...).
Undefined == "undefined"
\* "No row": ids start at 1.
NoId == 0
\* undeployed_at IS NULL
NoTime == -1

Numbers == {"1", "2"}
TagNames == {"prod"}
EnvNames == {"prod", "test"}
Branches == {NULL, "main"}
\* Parsed request bodies (PactContent), told apart by their interactions.
Contents == {[interactions |-> 0], [interactions |-> 1]}

\* ------------------------------------------------------------ pure helpers
Max(S) == CHOOSE x \in S : \A y \in S : y <= x

\* All orderings of a finite set, as sequences without repetition.
Orderings(S) ==
    {f \in [1..Cardinality(S) -> S] : \A i, j \in 1..Cardinality(S) : f[i] = f[j] => i = j}

\* JSON.stringify(content): the text stored in pacts.content.
JSONstringify(content) == <<"{\"interactions\":", content.interactions, "}">>

\* SHA-256 hex digest of a text: a function of the text alone, and free of
\* collisions on the texts the model publishes.
sha256(str) == <<"sha256", str>>

\* ------------------------------------------------------------- table reads
PacticipantByName(ps, name) ==
    IF \E i \in DOMAIN ps : ps[i].name = name
    THEN (CHOOSE i \in DOMAIN ps : ps[i].name = name)
    ELSE NoId

VersionByNumber(vs, pid, number) ==
    IF \E i \in DOMAIN vs : vs[i].pacticipantId = pid /\ vs[i].number = number
    THEN (CHOOSE i \in DOMAIN vs : vs[i].pacticipantId = pid /\ vs[i].number = number)
    ELSE NoId

\* getPacticipant(name): the row id, NoId when absent
getPacticipant(name) == PacticipantByName(pacticipants, name)

\* Mutant of getVersion: the version number is not compared.
getVersion_AnyNumber(name, number) ==
    IF \E i \in DOMAIN versions : versions[i].pacticipantId = getPacticipant(name)
    THEN (CHOOSE i \in DOMAIN versions : versions[i].pacticipantId = getPacticipant(name))
    ELSE NoId

\* getVersion(pacticipantName, versionNumber): the row id, NoId when absent
getVersion(name, number) ==
    IF getPacticipant(name) = NoId THEN NoId
    ELSE VersionByNumber(versions, getPacticipant(name), number)

\* Mutant of PactByKey: the two columns are compared with each other's value.
PactByKey_ColumnsSwapped(ps, vid, pid) ==
    IF \E i \in DOMAIN ps : ps[i].consumerVersionId = pid /\ ps[i].providerId = vid
    THEN (CHOOSE i \in DOMAIN ps : ps[i].consumerVersionId = pid /\ ps[i].providerId = vid)
    ELSE NoId

\* SELECT ... FROM pacts WHERE consumer_version_id = ? AND provider_id = ?
PactByKey(ps, vid, pid) ==
    IF \E i \in DOMAIN ps : ps[i].consumerVersionId = vid /\ ps[i].providerId = pid
    THEN (CHOOSE i \in DOMAIN ps : ps[i].consumerVersionId = vid /\ ps[i].providerId = pid)
    ELSE NoId

\* -------------------------------------------------------- get-or-create
\* getOrCreatePacticipant(name): the table afterwards
getOrCreatePacticipant(ps, name) ==
    IF PacticipantByName(ps, name) # NoId THEN ps
    ELSE Append(ps, [id |-> Len(ps) + 1, name |-> name, mainBranch |-> "main",
                     createdAt |-> now])

\* Mutant of getOrCreateVersion: a missing version is not inserted.
getOrCreateVersion_NoInsert(ps, vs, name, number, branch) == vs

\* Mutant of getOrCreateVersion: a branch supplied for an existing version
\* replaces the stored one.
getOrCreateVersion_UpdatesBranch(ps, vs, name, number, branch) ==
    LET pid == PacticipantByName(ps, name)
        existing == VersionByNumber(vs, pid, number) IN
    IF existing # NoId
    THEN IF branch # NULL THEN [vs EXCEPT ![existing].branch = branch] ELSE vs
    ELSE Append(vs, [id |-> Len(vs) + 1, pacticipantId |-> pid, number |-> number,
                     branch |-> branch, buildUrl |-> NULL, createdAt |-> now])

\* getOrCreateVersion(pacticipantName, versionNumber, branch): the versions
\* table afterwards, given the pacticipants table after getOrCreatePacticipant
getOrCreateVersion(ps, vs, name, number, branch) ==
    LET pid == PacticipantByName(ps, name) IN
    IF VersionByNumber(vs, pid, number) # NoId THEN vs
    ELSE Append(vs, [id |-> Len(vs) + 1, pacticipantId |-> pid, number |-> number,
                     branch |-> branch, buildUrl |-> NULL, createdAt |-> now])

\* ------------------------------------------------------------- the schema
\* The statements of the migrations array, in order: what each creates and
\* the table it needs. CREATE statements have IF NOT EXISTS; ALTER TABLE ADD
\* COLUMN fails with "duplicate column name" when the column is there.
Create(kind, name, table) == [kind |-> kind, name |-> name, table |-> table]

migrations ==
    <<Create("table", "pacticipants", NULL),
      Create("index", "pacticipants_name_idx", "pacticipants"),
      Create("table", "versions", NULL),
      Create("index", "versions_pacticipant_id_idx", "versions"),
      Create("table", "tags", NULL),
      Create("index", "tags_name_idx", "tags"),
      Create("table", "pacts", NULL),
      Create("index", "pacts_provider_id_idx", "pacts"),
      Create("index", "pacts_content_sha_idx", "pacts"),
      Create("table", "verifications", NULL),
      Create("index", "verifications_pact_id_idx", "verifications"),
      Create("index", "verifications_provider_version_idx", "verifications"),
      Create("column", "pacticipants.main_branch", "pacticipants"),
      Create("table", "environments", NULL),
      Create("index", "environments_name_idx", "environments"),
      Create("table", "deployed_versions", NULL),
      Create("index", "deployed_versions_env_idx", "deployed_versions"),
      Create("index", "deployed_versions_version_idx", "deployed_versions"),
      Create("index", "deployed_versions_version_env_idx", "deployed_versions")>>

\* sql.exec(migration): "ok", "duplicate column name", or another error.
Exec(schema, migration) ==
    IF migration.table # NULL /\ migration.table \notin schema THEN "no such table"
    ELSE IF migration.kind = "column" /\ migration.name \in schema
    THEN "duplicate column name"
    ELSE "ok"

\* runMigrations(sql) from statement k on: the objects of the schema
\* afterwards. An error other than "duplicate column name" is thrown again and
\* ends the loop.
RECURSIVE runMigrations(_, _)
runMigrations(schema, k) ==
    IF k > Len(migrations) THEN schema
    ELSE IF Exec(schema, migrations[k]) = "ok"
    THEN runMigrations(schema \cup {migrations[k].name}, k + 1)
    ELSE IF Exec(schema, migrations[k]) = "duplicate column name"
    THEN runMigrations(schema, k + 1)
    ELSE schema

\* Everything the migrations create.
Schema == {migrations[k].name : k \in DOMAIN migrations}

\* The Durable Object instance: stopped (not in memory), constructing (the
\* constructor has run and blockConcurrencyWhile holds back every event), or
\* ready; the objects of its SQLite schema, which outlive the instance; how
\* often it was started; how often runMigrations ran since its last start.
Ready == [phase |-> "ready", schema |-> Schema, starts |-> 1, migrated |-> 1]

\* ---------------------------------------------------------------- actions
\* The state after construction: empty tables.
Init ==
    /\ instance = Ready
    /\ pacticipants = <<>>
    /\ versions = <<>>
    /\ tags = <<>>
    /\ pacts = <<>>
    /\ verifications = <<>>
    /\ environments = <<>>
    /\ deployedVersions = <<>>
    /\ now = 0
    /\ ret = [op |-> "idle"]

\* A second passes: datetime('now') returns the next value.
Tick ==
    /\ now < MaxTime
    /\ now' = now + 1
    /\ UNCHANGED <<tables, ret, instance>>

\* The caller receives the result; the broker takes the next request. One
\* operation runs at a time (the operations are modelled as run to completion).
Idle == [op |-> "idle"]

Return ==
    /\ ret # Idle
    /\ ret' = Idle
    /\ UNCHANGED <<tables, now, instance>>

\* Mutant of PublishOutcome: no lookup of the existing pact before the INSERT.
PublishOutcome_NoLookup(ps, vid, pid, contentSha) == "created"

\* Mutant of PublishOutcome: an existing pact is returned as it is, whatever
\* the content published.
PublishOutcome_NeverUpdates(ps, vid, pid, contentSha) ==
    IF PactByKey(ps, vid, pid) # NoId THEN "unchanged" ELSE "created"

\* Which return statement publishPact reaches once the consumer version and
\* the provider exist: "unchanged" (line 247), "updated" (line 242) or
\* "created" (line 262). The INSERT never meets the table's
\* UNIQUE(consumer_version_id, provider_id): it runs only after the lookup on
\* the same two columns found no row.
PublishOutcome(ps, vid, pid, contentSha) ==
    IF PactByKey(ps, vid, pid) # NoId
    THEN IF ps[PactByKey(ps, vid, pid)].contentSha # contentSha
         THEN "updated" ELSE "unchanged"
    ELSE "created"

\* Mutant of UpdatePact: the content is replaced and the hash kept.
UpdatePact_ContentOnly(existing, contentStr, contentSha) ==
    [existing EXCEPT !.content = contentStr]

\* .set({ content: contentStr, contentSha }) on the existing row, which is also
\* the row returned ({ ...existing, content: contentStr, contentSha }).
UpdatePact(existing, contentStr, contentSha) ==
    [existing EXCEPT !.content = contentStr, !.contentSha = contentSha]

publishPact(consumerName, consumerVersion, providerName, content, branch) ==
    LET ps1 == getOrCreatePacticipant(pacticipants, consumerName)
        vs1 == getOrCreateVersion(ps1, versions, consumerName, consumerVersion, branch)
        ps2 == getOrCreatePacticipant(ps1, providerName)
        vid == VersionByNumber(vs1, PacticipantByName(ps1, consumerName), consumerVersion)
        pid == PacticipantByName(ps2, providerName)
        contentStr == JSONstringify(content)
        contentSha == sha256(contentStr)
        existing == PactByKey(pacts, vid, pid)
        outcome == PublishOutcome(pacts, vid, pid, contentSha)
        inserted == [id |-> Len(pacts) + 1, consumerVersionId |-> vid,
                     providerId |-> pid, content |-> contentStr,
                     contentSha |-> contentSha, createdAt |-> now]
        args == [consumer |-> consumerName, version |-> consumerVersion,
                 provider |-> providerName, content |-> content, branch |-> branch]
    IN
    /\ outcome = "created" => Len(pacts) < MaxPacts
    /\ pacticipants' = ps2
    /\ versions' = vs1
    /\ pacts' = CASE outcome = "updated" ->
                       [pacts EXCEPT ![existing] = UpdatePact(@, contentStr, contentSha)]
                  [] outcome = "unchanged" -> pacts
                  [] outcome = "created" -> Append(pacts, inserted)
    /\ ret' = [op |-> "publishPact", args |-> args, outcome |-> outcome,
               created |-> (outcome = "created"),
               pact |-> CASE outcome = "updated" ->
                                 UpdatePact(pacts[existing], contentStr, contentSha)
                          [] outcome = "unchanged" -> pacts[existing]
                          [] outcome = "created" -> inserted]
    /\ UNCHANGED <<tags, verifications, environments, deployedVersions, now, instance>>

\* Mutant of getPactByContentSha: the hash is not compared.
getPactByContentSha_AnyPact(sha) == DOMAIN pacts

\* getPactByContentSha(sha): SELECT ... WHERE content_sha = ? with no ORDER
\* BY, first row taken. Several pacts may carry the hash; which of them comes
\* first is left to the query planner. The set of rows .get() may return.
getPactByContentSha(sha) == {i \in DOMAIN pacts : pacts[i].contentSha = sha}

\* Mutant of InsertVerification: a verification of the same pact by the same
\* provider version is overwritten.
InsertVerification_Upsert(vs, row) ==
    IF \E i \in DOMAIN vs : /\ vs[i].pactId = row.pactId
                            /\ vs[i].providerVersionId = row.providerVersionId
    THEN LET i == CHOOSE i \in DOMAIN vs : /\ vs[i].pactId = row.pactId
                                          /\ vs[i].providerVersionId = row.providerVersionId
         IN [vs EXCEPT ![i] = [row EXCEPT !.id = i]]
    ELSE Append(vs, row)

\* insert(verifications).values(...): the table afterwards. The table has no
\* unique index besides its primary key.
InsertVerification(vs, row) == Append(vs, row)

publishVerification(providerName, consumerName, pactSha, providerVersion, success, buildUrl) ==
    LET args == [provider |-> providerName, sha |-> pactSha,
                 version |-> providerVersion, success |-> success]
    IN
    IF getPactByContentSha(pactSha) = {}
    THEN /\ ret' = [op |-> "publishVerification", args |-> args, result |-> <<>>]
         /\ UNCHANGED <<tables, now, instance>>
    ELSE \E pact \in getPactByContentSha(pactSha) :
         LET ps1 == getOrCreatePacticipant(pacticipants, providerName)
             vs1 == getOrCreateVersion(ps1, versions, providerName, providerVersion, NULL)
             pvid == VersionByNumber(vs1, PacticipantByName(ps1, providerName), providerVersion)
             row == [id |-> Len(verifications) + 1, pactId |-> pact,
                     providerVersionId |-> pvid, success |-> success,
                     buildUrl |-> buildUrl, verifiedAt |-> now]
         IN
         /\ Len(verifications) < MaxVerifications
         /\ pacticipants' = ps1
         /\ versions' = vs1
         /\ verifications' = InsertVerification(verifications, row)
         /\ ret' = [op |-> "publishVerification", args |-> args, result |-> <<row>>]
         /\ UNCHANGED <<tags, pacts, environments, deployedVersions, now, instance>>

\* Mutant of TagByKey: the lookup finds nothing.
TagByKey_NoLookup(vid, tagName) == NoId

\* SELECT ... FROM tags WHERE version_id = ? AND name = ?
TagByKey(vid, tagName) ==
    IF \E i \in DOMAIN tags : tags[i].versionId = vid /\ tags[i].name = tagName
    THEN (CHOOSE i \in DOMAIN tags : tags[i].versionId = vid /\ tags[i].name = tagName)
    ELSE NoId

addTag(pacticipantName, versionNumber, tagName) ==
    LET vid == getVersion(pacticipantName, versionNumber)
        args == [pacticipant |-> pacticipantName, version |-> versionNumber,
                 tag |-> tagName]
    IN
    IF vid = NoId
    THEN /\ ret' = [op |-> "addTag", args |-> args, result |-> <<>>]
         /\ UNCHANGED <<tables, now, instance>>
    ELSE IF TagByKey(vid, tagName) # NoId
    THEN /\ ret' = [op |-> "addTag", args |-> args,
                    result |-> <<tags[TagByKey(vid, tagName)]>>]
         /\ UNCHANGED <<tables, now, instance>>
    ELSE /\ Len(tags) < MaxTags
         /\ tags' = Append(tags, [id |-> Len(tags) + 1, versionId |-> vid,
                                  name |-> tagName, createdAt |-> now])
         /\ ret' = [op |-> "addTag", args |-> args, result |-> <<tags'[Len(tags')]>>]
         /\ UNCHANGED <<pacticipants, versions, pacts, verifications,
                        environments, deployedVersions, now, instance>>

\* Mutant of getLatestVersionByTag: ORDER BY tags.created_at DESC, tags.id
\* DESC, the version tagged last.
getLatestVersionByTag_TaggedLast(pacticipantName, tagName) ==
    LET pid == getPacticipant(pacticipantName)
        tagging == {t \in DOMAIN tags :
                       /\ tags[t].name = tagName
                       /\ versions[tags[t].versionId].pacticipantId = pid}
    IN
    IF pid = NoId \/ tagging = {} THEN {}
    ELSE {tags[Max(tagging)].versionId}

\* getLatestVersionByTag(pacticipantName, tagName): versions JOIN tags ORDER
\* BY versions.created_at DESC, first row taken. created_at has a resolution
\* of one second, and the order among equal keys is left to the engine: the
\* set of version ids .get() may return ({} when it returns undefined).
getLatestVersionByTag(pacticipantName, tagName) ==
    LET pid == getPacticipant(pacticipantName)
        tagged == {v \in DOMAIN versions :
                      /\ versions[v].pacticipantId = pid
                      /\ TagByKey(v, tagName) # NoId}
    IN
    IF pid = NoId \/ tagged = {} THEN {}
    ELSE {v \in tagged :
             versions[v].createdAt = Max({versions[w].createdAt : w \in tagged})}

\* A call of getLatestVersionByTag: the version row, <<>> for undefined.
GetLatestVersionByTag(pacticipantName, tagName) ==
    /\ \E result \in IF getLatestVersionByTag(pacticipantName, tagName) = {}
                      THEN {<<>>}
                      ELSE {<<versions[v]>> : v \in getLatestVersionByTag(pacticipantName,
                                                                         tagName)} :
          ret' = [op |-> "getLatestVersionByTag",
                  args |-> [pacticipant |-> pacticipantName, tag |-> tagName],
                  result |-> result]
    /\ UNCHANGED <<tables, now, instance>>

\* The rows of a verifications query ORDER BY verified_at DESC that .get() may
\* return, S being the rows the WHERE clause keeps: NoId when there is none.
FirstByVerifiedAtDesc(S) ==
    IF S = {} THEN {NoId}
    ELSE {i \in S : verifications[i].verifiedAt =
                        Max({verifications[j].verifiedAt : j \in S})}

\* Mutant of MatrixVerification: the target tag is not applied, the newest
\* verification by any provider version is taken.
MatrixVerification_AnyProviderVersion(pact, toTag) ==
    FirstByVerifiedAtDesc({i \in DOMAIN verifications : verifications[i].pactId = pact})

\* The verification getMatrix attaches to a pact (the choices .get() has).
MatrixVerification(pact, toTag) ==
    LET providerName == pacticipants[pacts[pact].providerId].name IN
    IF toTag # NULL
    THEN IF getLatestVersionByTag(providerName, toTag) = {} THEN {NoId}
         ELSE UNION {FirstByVerifiedAtDesc(
                         {i \in DOMAIN verifications :
                             /\ verifications[i].pactId = pact
                             /\ verifications[i].providerVersionId = pv}) :
                     pv \in getLatestVersionByTag(providerName, toTag)}
    ELSE FirstByVerifiedAtDesc({i \in DOMAIN verifications : verifications[i].pactId = pact})

\* Mutant of MatrixRow: provider.version is the number of the provider
\* version that made the verification reported.
MatrixRow_VerifierVersion(pact, verification) ==
    [consumer |-> [name |-> pacticipants[versions[pacts[pact].consumerVersionId].pacticipantId].name,
                   version |-> versions[pacts[pact].consumerVersionId].number],
     provider |-> [name |-> pacticipants[pacts[pact].providerId].name,
                   version |-> IF verification = NoId THEN NULL
                               ELSE versions[verifications[verification].providerVersionId].number],
     pactVersion |-> [sha |-> pacts[pact].contentSha],
     verificationResult |->
         IF verification = NoId THEN <<>>
         ELSE <<[success |-> verifications[verification].success,
                 verifiedAt |-> verifications[verification].verifiedAt]>>]

\* rows.push({...}) of getMatrix; verificationResult is <<>> for null
MatrixRow(pact, verification) ==
    [consumer |-> [name |-> pacticipants[versions[pacts[pact].consumerVersionId].pacticipantId].name,
                   version |-> versions[pacts[pact].consumerVersionId].number],
     provider |-> [name |-> pacticipants[pacts[pact].providerId].name, version |-> NULL],
     pactVersion |-> [sha |-> pacts[pact].contentSha],
     verificationResult |->
         IF verification = NoId THEN <<>>
         ELSE <<[success |-> verifications[verification].success,
                 verifiedAt |-> verifications[verification].verifiedAt]>>]

\* Mutant of MatrixPacts: the pacts the participant provides are rows too.
MatrixPacts_AlsoProvided(pacticipantName, version) ==
    LET pid == getPacticipant(pacticipantName) IN
    IF pid = NoId THEN {}
    ELSE {i \in DOMAIN pacts :
             /\ \/ versions[pacts[i].consumerVersionId].pacticipantId = pid
                \/ pacts[i].providerId = pid
             /\ ~(version # NULL /\ versions[pacts[i].consumerVersionId].number # version)
             /\ pacts[i].providerId \in DOMAIN pacticipants}

\* The pacts getMatrix makes rows of: pacts JOIN versions WHERE
\* versions.pacticipant_id = ?, less those the loop skips.
MatrixPacts(pacticipantName, version) ==
    LET pid == getPacticipant(pacticipantName) IN
    IF pid = NoId THEN {}
    ELSE {i \in DOMAIN pacts :
             /\ versions[pacts[i].consumerVersionId].pacticipantId = pid
             /\ ~(version # NULL /\ versions[pacts[i].consumerVersionId].number # version)
             /\ pacts[i].providerId \in DOMAIN pacticipants}

\* getMatrix(pacticipantName, version?, toTag?): every value it may return.
\* The join has no ORDER BY, so the rows come in any order.
getMatrix(pacticipantName, version, toTag) ==
    LET ids == MatrixPacts(pacticipantName, version) IN
    {[k \in 1..Cardinality(ids) |-> MatrixRow(order[k], pick[order[k]])] :
        order \in Orderings(ids),
        pick \in {f \in [ids -> DOMAIN verifications \cup {NoId}] :
                     \A i \in ids : f[i] \in MatrixVerification(i, toTag)}}

Unverified(matrix) == {k \in DOMAIN matrix : matrix[k].verificationResult = <<>>}

Failed(matrix) ==
    {k \in DOMAIN matrix : /\ matrix[k].verificationResult # <<>>
                           /\ ~matrix[k].verificationResult[1].success}

\* Mutant of Decide: the failed rows are looked at before the unverified ones.
Decide_FailedFirst(matrix) ==
    IF Len(matrix) = 0
    THEN [deployable |-> TRUE, reason |-> <<"No pacts found for this version">>,
          matrix |-> <<>>]
    ELSE IF Cardinality(Failed(matrix)) > 0
    THEN [deployable |-> FALSE,
          reason |-> <<Cardinality(Failed(matrix)), " pact verification(s) failed">>,
          matrix |-> matrix]
    ELSE IF Cardinality(Unverified(matrix)) > 0
    THEN [deployable |-> FALSE,
          reason |-> <<Cardinality(Unverified(matrix)), " pact(s) have not been verified">>,
          matrix |-> matrix]
    ELSE [deployable |-> TRUE, reason |-> <<"All pacts verified successfully">>,
          matrix |-> matrix]

\* The verdict of canIDeploy on a matrix. A reason is the template's parts.
Decide(matrix) ==
    IF Len(matrix) = 0
    THEN [deployable |-> TRUE, reason |-> <<"No pacts found for this version">>,
          matrix |-> <<>>]
    ELSE IF Cardinality(Unverified(matrix)) > 0
    THEN [deployable |-> FALSE,
          reason |-> <<Cardinality(Unverified(matrix)), " pact(s) have not been verified">>,
          matrix |-> matrix]
    ELSE IF Cardinality(Failed(matrix)) > 0
    THEN [deployable |-> FALSE,
          reason |-> <<Cardinality(Failed(matrix)), " pact verification(s) failed">>,
          matrix |-> matrix]
    ELSE [deployable |-> TRUE, reason |-> <<"All pacts verified successfully">>,
          matrix |-> matrix]

GetMatrix(pacticipantName, version, toTag) ==
    /\ \E matrix \in getMatrix(pacticipantName, version, toTag) :
          ret' = [op |-> "getMatrix",
                  args |-> [pacticipant |-> pacticipantName, version |-> version,
                            toTag |-> toTag],
                  result |-> matrix]
    /\ UNCHANGED <<tables, now, instance>>

canIDeploy(pacticipantName, version, toTag) ==
    /\ \E matrix \in getMatrix(pacticipantName, version, toTag) :
          ret' = [op |-> "canIDeploy",
                  args |-> [pacticipant |-> pacticipantName, version |-> version,
                            toTag |-> toTag],
                  result |-> Decide(matrix)]
    /\ UNCHANGED <<tables, now, instance>>


\* ------------------------------------------- environments and deployments
EnvironmentByName(es, name) ==
    IF \E i \in DOMAIN es : es[i].name = name
    THEN (CHOOSE i \in DOMAIN es : es[i].name = name)
    ELSE NoId

\* getEnvironment(name): the row id, NoId when absent
getEnvironment(name) == EnvironmentByName(environments, name)

\* a ?? b
Coalesce(a, b) == IF a \in {Undefined, NULL} THEN b ELSE a

\* The row .insert(environments).values({ name, displayName, production:
\* production ?? false }) stores: a key left undefined is not written and the
\* column takes its default, NULL for display_name.
InsertedEnvironment(es, name, displayName, production) ==
    [id |-> Len(es) + 1, name |-> name,
     displayName |-> IF displayName = Undefined THEN NULL ELSE displayName,
     production |-> Coalesce(production, "false"), createdAt |-> now]

\* getOrCreateEnvironment(name, displayName?, production?): the table
\* afterwards. An argument is Undefined when left out and NULL when null was
\* passed (the PUT route passes body.displayName and body.production of the
\* parsed JSON as they are); the production flag is written "true" / "false".
\* .set() takes the keys whose argument is !== undefined.
getOrCreateEnvironment(es, name, displayName, production) ==
    LET existing == EnvironmentByName(es, name) IN
    IF existing # NoId
    THEN [es EXCEPT ![existing].displayName =
                        IF displayName # Undefined THEN displayName ELSE @,
                    ![existing].production =
                        IF production # Undefined THEN production ELSE @]
    ELSE Append(es, InsertedEnvironment(es, name, displayName, production))

\* What getOrCreateEnvironment returns: the row found when nothing is
\* supplied (line 694), { ...existing, displayName: displayName ??
\* existing.displayName, production: production ?? existing.production }
\* after an UPDATE (lines 688-692), the inserted row otherwise.
ReturnedEnvironment(es, name, displayName, production) ==
    LET existing == EnvironmentByName(es, name) IN
    IF existing # NoId
    THEN IF displayName # Undefined \/ production # Undefined
         THEN [es[existing] EXCEPT !.displayName = Coalesce(displayName, @),
                                   !.production = Coalesce(production, @)]
         ELSE es[existing]
    ELSE InsertedEnvironment(es, name, displayName, production)

GetOrCreateEnvironment(name, displayName, production) ==
    /\ environments' = getOrCreateEnvironment(environments, name, displayName, production)
    /\ ret' = [op |-> "getOrCreateEnvironment",
               args |-> [name |-> name, displayName |-> displayName,
                         production |-> production],
               result |-> ReturnedEnvironment(environments, name, displayName, production)]
    /\ UNCHANGED <<pacticipants, versions, tags, pacts, verifications,
                   deployedVersions, now, instance>>

\* Mutant of DeploymentsOf: the two columns are compared with each other's value.
DeploymentsOf_ColumnsSwapped(dv, vid, eid) ==
    {i \in DOMAIN dv : dv[i].versionId = eid /\ dv[i].environmentId = vid}

\* The rows of deployed_versions for a (version_id, environment_id) pair: what
\* the lookups of the deployment operations select on, and the key of the
\* unique index deployed_versions_version_env_idx.
DeploymentsOf(dv, vid, eid) ==
    {i \in DOMAIN dv : dv[i].versionId = vid /\ dv[i].environmentId = eid}

\* Mutant of ActiveDeployments: undeployed_at is not tested.
ActiveDeployments_AnyRow(dv, vid, eid) == DeploymentsOf(dv, vid, eid)

\* ... AND undeployed_at IS NULL
ActiveDeployments(dv, vid, eid) ==
    {i \in DeploymentsOf(dv, vid, eid) : dv[i].undeployedAt = NoTime}

\* Mutant of DeployOutcome: no lookup of the active row before the INSERT.
DeployOutcome_NoActiveLookup(dv, vid, eid) ==
    IF DeploymentsOf(dv, vid, eid) # {} THEN "threw" ELSE "inserted"

\* How recordDeployment ends for an existing version: "existing" (return at
\* line 738), "inserted" (line 741), or "threw": the INSERT fails on the
\* unique index over (version_id, environment_id), which also counts the rows
\* that have been undeployed.
DeployOutcome(dv, vid, eid) ==
    IF ActiveDeployments(dv, vid, eid) # {} THEN "existing"
    ELSE IF DeploymentsOf(dv, vid, eid) # {} THEN "threw"
    ELSE "inserted"

recordDeployment(pacticipantName, versionNumber, environmentName) ==
    LET vid == getVersion(pacticipantName, versionNumber)
        es1 == getOrCreateEnvironment(environments, environmentName, Undefined, Undefined)
        eid == EnvironmentByName(es1, environmentName)
        outcome == DeployOutcome(deployedVersions, vid, eid)
        inserted == [id |-> Len(deployedVersions) + 1, versionId |-> vid,
                     environmentId |-> eid, deployedAt |-> now,
                     undeployedAt |-> NoTime]
        args == [pacticipant |-> pacticipantName, version |-> versionNumber,
                 environment |-> environmentName]
    IN
    IF vid = NoId
    THEN /\ ret' = [op |-> "recordDeployment", args |-> args,
                    outcome |-> "notFound", result |-> <<>>]
         /\ UNCHANGED <<tables, now, instance>>
    ELSE /\ outcome = "inserted" => Len(deployedVersions) < MaxDeployments
         /\ environments' = es1
         /\ deployedVersions' = IF outcome = "inserted"
                                THEN Append(deployedVersions, inserted)
                                ELSE deployedVersions
         /\ \E existing \in IF outcome = "existing"
                            THEN ActiveDeployments(deployedVersions, vid, eid)
                            ELSE {NoId} :
               ret' = [op |-> "recordDeployment", args |-> args, outcome |-> outcome,
                       result |-> CASE outcome = "existing" -> <<deployedVersions[existing]>>
                                    [] outcome = "inserted" -> <<inserted>>
                                    [] outcome = "threw" -> <<>>]
         /\ UNCHANGED <<pacticipants, versions, tags, pacts, verifications, now, instance>>

\* Mutant of StampUndeployed: the UPDATE selects on the version alone.
StampUndeployed_EveryEnvironment(dv, existing) ==
    [i \in DOMAIN dv |->
        IF dv[i].versionId = dv[existing].versionId /\ dv[i].undeployedAt = NoTime
        THEN [dv[i] EXCEPT !.undeployedAt = now] ELSE dv[i]]

\* update(deployedVersions).set({ undeployedAt: <current time, to the second> })
\* .where(id = existing.id): the table afterwards.
StampUndeployed(dv, existing) == [dv EXCEPT ![existing].undeployedAt = now]

recordUndeployment(pacticipantName, versionNumber, environmentName) ==
    LET vid == getVersion(pacticipantName, versionNumber)
        eid == getEnvironment(environmentName)
        args == [pacticipant |-> pacticipantName, version |-> versionNumber,
                 environment |-> environmentName]
    IN
    IF vid = NoId \/ eid = NoId \/ ActiveDeployments(deployedVersions, vid, eid) = {}
    THEN /\ ret' = [op |-> "recordUndeployment", args |-> args, result |-> FALSE]
         /\ UNCHANGED <<tables, now, instance>>
    ELSE /\ \E existing \in ActiveDeployments(deployedVersions, vid, eid) :
               deployedVersions' = StampUndeployed(deployedVersions, existing)
         /\ ret' = [op |-> "recordUndeployment", args |-> args, result |-> TRUE]
         /\ UNCHANGED <<pacticipants, versions, tags, pacts, verifications,
                        environments, now, instance>>

\* Mutant of VersionDeployed: the environment given is looked up and then
\* left out of the query on deployed_versions.
VersionDeployed_AnyEnvironment(ps, vs, es, dv, pacticipantName, versionNumber, environmentName) ==
    LET pid == PacticipantByName(ps, pacticipantName)
        vid == IF pid = NoId THEN NoId ELSE VersionByNumber(vs, pid, versionNumber)
    IN
    IF vid = NoId THEN FALSE
    ELSE IF environmentName # NULL /\ EnvironmentByName(es, environmentName) = NoId
    THEN FALSE
    ELSE {i \in DOMAIN dv : dv[i].versionId = vid /\ dv[i].undeployedAt = NoTime} # {}

\* isVersionDeployed(pacticipantName, versionNumber, environmentName?) on the
\* tables given
VersionDeployed(ps, vs, es, dv, pacticipantName, versionNumber, environmentName) ==
    LET pid == PacticipantByName(ps, pacticipantName)
        vid == IF pid = NoId THEN NoId ELSE VersionByNumber(vs, pid, versionNumber)
    IN
    IF vid = NoId THEN FALSE
    ELSE IF environmentName # NULL
    THEN IF EnvironmentByName(es, environmentName) = NoId THEN FALSE
         ELSE ActiveDeployments(dv, vid, EnvironmentByName(es, environmentName)) # {}
    ELSE {i \in DOMAIN dv : dv[i].versionId = vid /\ dv[i].undeployedAt = NoTime} # {}

isVersionDeployed(pacticipantName, versionNumber, environmentName) ==
    VersionDeployed(pacticipants, versions, environments, deployedVersions,
                    pacticipantName, versionNumber, environmentName)

\* Mutant of IsVersionDeployed: the environment asked about is fetched with
\* getOrCreateEnvironment.
IsVersionDeployed_CreatesEnvironment(pacticipantName, versionNumber, environmentName) ==
    /\ ret' = [op |-> "isVersionDeployed",
               args |-> [pacticipant |-> pacticipantName, version |-> versionNumber,
                         environment |-> environmentName],
               result |-> isVersionDeployed(pacticipantName, versionNumber,
                                            environmentName)]
    /\ environments' = IF environmentName = NULL THEN environments
                       ELSE getOrCreateEnvironment(environments, environmentName,
                                                   Undefined, Undefined)
    /\ UNCHANGED <<pacticipants, versions, tags, pacts, verifications,
                   deployedVersions, now, instance>>

\* A call of isVersionDeployed.
IsVersionDeployed(pacticipantName, versionNumber, environmentName) ==
    /\ ret' = [op |-> "isVersionDeployed",
               args |-> [pacticipant |-> pacticipantName, version |-> versionNumber,
                         environment |-> environmentName],
               result |-> isVersionDeployed(pacticipantName, versionNumber,
                                            environmentName)]
    /\ UNCHANGED <<tables, now, instance>>

\* ---------------------------------------------------- pacts for verification
\* getTagsForVersion(pacticipantName, versionNumber): the tag names
getTagsForVersion(pacticipantName, versionNumber) ==
    LET vid == getVersion(pacticipantName, versionNumber) IN
    IF vid = NoId THEN {}
    ELSE {tags[i].name : i \in {j \in DOMAIN tags : tags[j].versionId = vid}}

\* Mutant of getLatestPact: without a tag, the newest version of the consumer
\* is taken, whether or not it has a pact with the provider.
getLatestPact_NewestVersion(providerName, consumerName, tag) ==
    LET consumer == getPacticipant(consumerName)
        provider == getPacticipant(providerName)
        own == {v \in DOMAIN versions : versions[v].pacticipantId = consumer}
        candidates ==
            IF tag # NULL THEN getLatestVersionByTag(consumerName, tag)
            ELSE {v \in own : versions[v].createdAt = Max({versions[w].createdAt : w \in own})}
    IN
    IF consumer = NoId \/ provider = NoId \/ candidates = {} THEN {NoId}
    ELSE {PactByKey(pacts, v, provider) : v \in candidates}

\* Mutant of getLatestPact: with a tag, the newest version is taken among the
\* tagged versions that have a pact with the provider.
getLatestPact_TaggedWithPact(providerName, consumerName, tag) ==
    LET consumer == getPacticipant(consumerName)
        provider == getPacticipant(providerName)
        withPact == {v \in DOMAIN versions :
                        /\ versions[v].pacticipantId = consumer
                        /\ PactByKey(pacts, v, provider) # NoId
                        /\ tag # NULL => TagByKey(v, tag) # NoId}
        candidates == {v \in withPact :
                          versions[v].createdAt = Max({versions[w].createdAt : w \in withPact})}
    IN
    IF consumer = NoId \/ provider = NoId \/ candidates = {} THEN {NoId}
    ELSE {PactByKey(pacts, v, provider) : v \in candidates}

\* getLatestPact(providerName, consumerName, tag?): the pact ids it may return,
\* NoId for null. Without a tag: versions JOIN pacts ORDER BY
\* versions.created_at DESC, first row taken (any of the newest on a tie).
getLatestPact(providerName, consumerName, tag) ==
    LET consumer == getPacticipant(consumerName)
        provider == getPacticipant(providerName)
        withPact == {v \in DOMAIN versions :
                        /\ versions[v].pacticipantId = consumer
                        /\ PactByKey(pacts, v, provider) # NoId}
        candidates ==
            IF tag # NULL THEN getLatestVersionByTag(consumerName, tag)
            ELSE {v \in withPact :
                     versions[v].createdAt = Max({versions[w].createdAt : w \in withPact})}
    IN
    IF consumer = NoId \/ provider = NoId \/ candidates = {} THEN {NoId}
    ELSE {PactByKey(pacts, v, provider) : v \in candidates}

\* A call of getLatestPact: the pact's row id, NoId for null.
GetLatestPact(providerName, consumerName, tag) ==
    /\ \E result \in getLatestPact(providerName, consumerName, tag) :
          ret' = [op |-> "getLatestPact",
                  args |-> [provider |-> providerName, consumer |-> consumerName,
                            tag |-> tag],
                  result |-> result]
    /\ UNCHANGED <<tables, now, instance>>

\* Mutant of getLatestPactsForProvider: every pact of the provider is returned.
getLatestPactsForProvider_EveryPact(providerName) ==
    LET provider == getPacticipant(providerName)
        all == {i \in DOMAIN pacts : pacts[i].providerId = provider}
    IN
    IF provider = NoId THEN {<<>>}
    ELSE {[k \in 1..Cardinality(all) |-> order[k]] : order \in Orderings(all)}

\* getLatestPactsForProvider(providerName): the sequences of pact ids it may
\* return. SELECT DISTINCT has no ORDER BY: the consumers come in any order.
getLatestPactsForProvider(providerName) ==
    LET provider == getPacticipant(providerName)
        consumerIds == {versions[pacts[i].consumerVersionId].pacticipantId :
                           i \in {j \in DOMAIN pacts : pacts[j].providerId = provider}}
    IN
    IF provider = NoId THEN {<<>>}
    ELSE {SelectSeq([k \in 1..Cardinality(consumerIds) |-> latest[order[k]]],
                    LAMBDA id : id # NoId) :
             order \in Orderings(consumerIds),
             latest \in {f \in [consumerIds -> DOMAIN pacts \cup {NoId}] :
                            \A c \in consumerIds :
                                f[c] \in getLatestPact(providerName, pacticipants[c].name, NULL)}}

\* A call of getLatestPactsForProvider: the row ids of the pacts returned.
GetLatestPactsForProvider(providerName) ==
    /\ \E result \in getLatestPactsForProvider(providerName) :
          ret' = [op |-> "getLatestPactsForProvider",
                  args |-> [provider |-> providerName], result |-> result]
    /\ UNCHANGED <<tables, now, instance>>

\* The consumer version and the consumer of a pact.
PactVersion(pact) == versions[pacts[pact].consumerVersionId]

PactConsumer(pact) == pacticipants[PactVersion(pact).pacticipantId]

\* Mutant of SelectorKeeps: a candidate passes when it passes one of the
\* selector's filters.
SelectorKeeps_AnyFilter(selector, pact) ==
    \/ selector.consumer # NULL /\ PactConsumer(pact).name = selector.consumer
    \/ selector.tag # NULL /\ selector.tag \in getTagsForVersion(PactConsumer(pact).name,
                                                                PactVersion(pact).number)
    \/ selector.branch # NULL /\ PactVersion(pact).branch = selector.branch
    \/ selector.mainBranch /\ PactVersion(pact).branch = PactConsumer(pact).mainBranch
    \/ selector.deployed /\ isVersionDeployed(PactConsumer(pact).name,
                                              PactVersion(pact).number, selector.environment)
    \/ /\ selector.consumer = NULL /\ selector.tag = NULL /\ selector.branch = NULL
       /\ ~selector.mainBranch /\ ~selector.deployed

\* Whether a candidate passes every filter of a selector (lines 891-955).
SelectorKeeps(selector, pact) ==
    /\ selector.consumer # NULL => PactConsumer(pact).name = selector.consumer
    /\ selector.tag # NULL =>
          selector.tag \in getTagsForVersion(PactConsumer(pact).name,
                                             PactVersion(pact).number)
    /\ selector.branch # NULL => PactVersion(pact).branch = selector.branch
    /\ selector.mainBranch => PactVersion(pact).branch = PactConsumer(pact).mainBranch
    /\ selector.deployed =>
          isVersionDeployed(PactConsumer(pact).name, PactVersion(pact).number,
                            selector.environment)

\* The words the for-verification routes put before every notice, and which
\* the notice of the empty selector list starts with (line 872).
Because == "This pact is being verified because "

\* The notices array a selector builds, a notice being the template's parts.
SelectorNotices(selector) ==
    (IF selector.consumer # NULL THEN <<<<"consumer is ", selector.consumer>>>> ELSE <<>>)
    \o (IF selector.tag # NULL
        THEN <<<<"version tagged with '", selector.tag, "'">>>> ELSE <<>>)
    \o (IF selector.branch # NULL
        THEN <<<<"version is on branch '", selector.branch, "'">>>> ELSE <<>>)
    \o (IF selector.mainBranch THEN <<<<"version is on the main branch">>>> ELSE <<>>)
    \o (IF selector.deployed
        THEN IF selector.environment # NULL
             THEN <<<<"version is deployed to '", selector.environment, "'">>>>
             ELSE <<<<"version is currently deployed">>>>
        ELSE <<>>)
    \o (IF selector.latest THEN <<<<"it is the latest pact">>>> ELSE <<>>)

\* One round of the loop "Add matched pacts with notices" (lines 963-973) for
\* selector k of n. m is matchedPacts: its entries in insertion order, each
\* holding a reference to a notices array, and the arrays by reference. Array
\* k is the notices array of selector k; array n + id is the array literal
\* made for pact id when the selector has no notices. An entry made for
\* selector k holds array k itself, not a copy, and push() appends to the
\* array an entry holds.
Matched(m, pact, k, n) ==
    LET at == {e \in DOMAIN m.entries : m.entries[e].pact = pact} IN
    IF at # {}
    THEN [m EXCEPT !.arrays[m.entries[CHOOSE e \in at : TRUE].notices] = @ \o m.arrays[k]]
    ELSE IF Len(m.arrays[k]) > 0
    THEN [m EXCEPT !.entries = Append(@, [pact |-> pact, notices |-> k])]
    ELSE [entries |-> Append(m.entries, [pact |-> pact, notices |-> n + pact]),
          arrays |-> [m.arrays EXCEPT ![n + pact] =
                         <<<<"it matches the consumer version selectors">>>>]]

RECURSIVE MatchAll(_, _, _, _)
MatchAll(m, selectorResults, k, n) ==
    IF selectorResults = <<>> THEN m
    ELSE MatchAll(Matched(m, Head(selectorResults), k, n), Tail(selectorResults), k, n)

\* Mutant of ForEachSelector: each selector filters what the selector before
\* it kept.
RECURSIVE ForEachSelector_Chained(_, _, _, _)
ForEachSelector_Chained(m, selectors, results, k) ==
    IF k > Len(selectors) THEN m
    ELSE ForEachSelector_Chained(
             MatchAll(m, SelectSeq(results, LAMBDA pact : SelectorKeeps(selectors[k], pact)),
                      k, Len(selectors)),
             selectors,
             SelectSeq(results, LAMBDA pact : SelectorKeeps(selectors[k], pact)), k + 1)

\* The loop over the selectors, from selector k on. Every selector filters
\* the same candidates (selectorResults = [...results], line 889).
RECURSIVE ForEachSelector(_, _, _, _)
ForEachSelector(m, selectors, results, k) ==
    IF k > Len(selectors) THEN m
    ELSE ForEachSelector(
             MatchAll(m, SelectSeq(results, LAMBDA pact : SelectorKeeps(selectors[k], pact)),
                      k, Len(selectors)),
             selectors, results, k + 1)

\* What getPactsForVerification returns, given the candidates: the entries of
\* matchedPacts in insertion order, each with its notices.
SelectPacts(selectors, results) ==
    IF Len(selectors) = 0
    THEN [e \in DOMAIN results |->
             [pact |-> results[e],
              notices |-> <<<<Because, "it is the latest pact">>>>]]
    ELSE LET n == Len(selectors)
             m == ForEachSelector(
                      [entries |-> <<>>,
                       arrays |-> [a \in 1..(n + Len(pacts)) |->
                                      IF a <= n THEN SelectorNotices(selectors[a])
                                      ELSE <<>>]],
                      selectors, results, 1)
         IN [e \in DOMAIN m.entries |->
                [pact |-> m.entries[e].pact,
                 notices |-> m.arrays[m.entries[e].notices]]]

getPactsForVerification(providerName, selectors) ==
    /\ \E results \in getLatestPactsForProvider(providerName) :
          ret' = [op |-> "getPactsForVerification",
                  args |-> [provider |-> providerName, selectors |-> selectors],
                  result |-> IF getPacticipant(providerName) = NoId THEN <<>>
                             ELSE SelectPacts(selectors, results)]
    /\ UNCHANGED <<tables, now, instance>>

\* getPact(providerName, consumerName, consumerVersion): the pact's row id
getPact(providerName, consumerName, consumerVersion) ==
    IF \/ getPacticipant(consumerName) = NoId
       \/ getPacticipant(providerName) = NoId
       \/ getVersion(consumerName, consumerVersion) = NoId
    THEN NoId
    ELSE PactByKey(pacts, getVersion(consumerName, consumerVersion),
                   getPacticipant(providerName))

\* getPactByContentShaFull(providerName, consumerName, sha): the pact ids it
\* may return, NoId for null. The pact is selected by hash and provider alone
\* (no ORDER BY, first row taken); the consumer is compared afterwards, when
\* the version of the pact found is looked up.
getPactByContentShaFull(providerName, consumerName, sha) ==
    LET consumer == getPacticipant(consumerName)
        provider == getPacticipant(providerName)
        found == {i \in DOMAIN pacts :
                     pacts[i].contentSha = sha /\ pacts[i].providerId = provider}
    IN
    IF consumer = NoId \/ provider = NoId \/ found = {} THEN {NoId}
    ELSE {IF versions[pacts[i].consumerVersionId].pacticipantId = consumer
          THEN i ELSE NoId : i \in found}

\* A call of getPact, of getPactByContentShaFull and of getVersion: the row
\* id returned, NoId for null or undefined.
GetPact(providerName, consumerName, consumerVersion) ==
    /\ ret' = [op |-> "getPact",
               args |-> [provider |-> providerName, consumer |-> consumerName,
                         version |-> consumerVersion],
               result |-> getPact(providerName, consumerName, consumerVersion)]
    /\ UNCHANGED <<tables, now, instance>>

GetPactByContentShaFull(providerName, consumerName, sha) ==
    /\ \E result \in getPactByContentShaFull(providerName, consumerName, sha) :
          ret' = [op |-> "getPactByContentShaFull",
                  args |-> [provider |-> providerName, consumer |-> consumerName,
                            sha |-> sha],
                  result |-> result]
    /\ UNCHANGED <<tables, now, instance>>

GetVersion(pacticipantName, versionNumber) ==
    /\ ret' = [op |-> "getVersion",
               args |-> [pacticipant |-> pacticipantName, version |-> versionNumber],
               result |-> getVersion(pacticipantName, versionNumber)]
    /\ UNCHANGED <<tables, now, instance>>

\* ------------------------------------------------------ claims on publishing
\* A step of publishPact, and the pact stored under its key before the step.
PublishStep == ret = Idle /\ ret'.op = "publishPact"

StoredBefore == getPact(ret'.args.provider, ret'.args.consumer, ret'.args.version)

\* C8: the first publishPact for a (consumer, version, provider) key returns
\* created = true and a pact whose contentSha is the hash of the serialized
\* content; publishing the content already stored under the key returns
\* created = false with the stored contentSha and changes no table.
C8_PublishThenRepublish ==
    [][PublishStep =>
        /\ StoredBefore = NoId =>
              /\ ret'.created
              /\ ret'.pact.contentSha = sha256(JSONstringify(ret'.args.content))
        /\ (/\ StoredBefore # NoId
            /\ pacts[StoredBefore].content = JSONstringify(ret'.args.content)) =>
              /\ ~ret'.created
              /\ ret'.pact.contentSha = pacts[StoredBefore].contentSha
              /\ ret'.pact.contentSha = sha256(JSONstringify(ret'.args.content))
              /\ tables' = tables]_vars

C8_Witness ==
    /\ ret.op = "publishPact"
    /\ ret.outcome = "unchanged"
    /\ ~ret.created

\* C9: publishPact with content that differs from the content stored under the
\* key returns created = false, replaces content and contentSha of that row
\* in place (same id, same createdAt, same number of pacts, every other row
\* as it was) and returns the pact with the new contentSha, which is not the
\* one stored before.
C9_ChangedContentUpdatesInPlace ==
    [][(/\ PublishStep
        /\ StoredBefore # NoId
        /\ pacts[StoredBefore].content # JSONstringify(ret'.args.content)) =>
          /\ ~ret'.created
          /\ Len(pacts') = Len(pacts)
          /\ \A i \in DOMAIN pacts : i # StoredBefore => pacts'[i] = pacts[i]
          /\ pacts'[StoredBefore] =
                [pacts[StoredBefore] EXCEPT
                    !.content = JSONstringify(ret'.args.content),
                    !.contentSha = sha256(JSONstringify(ret'.args.content))]
          /\ ret'.pact = pacts'[StoredBefore]
          /\ ret'.pact.contentSha # pacts[StoredBefore].contentSha]_vars

C9_Witness ==
    /\ ret.op = "publishPact"
    /\ ret.outcome = "updated"
    /\ ret.pact.createdAt < now
    /\ Len(pacts) = 2

\* C10: there is at most one pact row for each (consumerVersionId, providerId).
C10_OnePactPerKey ==
    \A i, j \in DOMAIN pacts :
        (/\ pacts[i].consumerVersionId = pacts[j].consumerVersionId
         /\ pacts[i].providerId = pacts[j].providerId) => i = j

\* The same key was published three times, with both contents.
C10_Witness ==
    /\ ret.op = "publishPact"
    /\ ret.outcome = "updated"
    /\ Len(pacts) = 1
    /\ pacts[1].createdAt < now
    /\ Len(versions) = 1

\* C11: the contentSha of every stored pact is the hash of the content stored
\* in the same row, and the contentSha publishPact returns is the hash of the
\* serialization of the content it was given, whatever was stored before: the
\* hash of a content is the same on every call.
C11_ShaOfStoredContent ==
    /\ \A i \in DOMAIN pacts : pacts[i].contentSha = sha256(pacts[i].content)
    /\ ret.op = "publishPact" =>
          /\ ret.pact.contentSha = sha256(JSONstringify(ret.args.content))
          /\ ret.pact.contentSha = sha256(ret.pact.content)

\* A republish has just changed the content of a stored pact.
C11_Witness ==
    /\ ret.op = "publishPact"
    /\ ret.outcome = "updated"
    /\ \E i \in DOMAIN pacts :
          /\ pacts[i].id = ret.pact.id
          /\ pacts[i].content = JSONstringify(ret.args.content)

\* ----------------------------------------------------- claims on deployments
\* A step of recordDeployment for an existing version that has no active
\* deployment in the environment named.
DeployStep ==
    /\ ret = Idle
    /\ ret'.op = "recordDeployment"
    /\ getVersion(ret'.args.pacticipant, ret'.args.version) # NoId
    /\ ~isVersionDeployed(ret'.args.pacticipant, ret'.args.version,
                          ret'.args.environment)

\* C3: recordDeployment on an existing version with no active deployment for
\* the (version, environment) pair appends a fresh active row and returns it,
\* and isVersionDeployed is true afterwards, whatever the history of the pair.
C3_DeployCreatesActiveRow ==
    [][DeployStep =>
        /\ ret'.result # <<>>
        /\ ret'.result[1].undeployedAt = NoTime
        /\ deployedVersions' = Append(deployedVersions, ret'.result[1])
        /\ VersionDeployed(pacticipants', versions', environments', deployedVersions',
                           ret'.args.pacticipant, ret'.args.version,
                           ret'.args.environment)]_vars

\* C4: each (version, environment) pair has at most one deployment row with
\* undeployedAt = null.
C4_OneActiveDeploymentPerPair ==
    \A i, j \in DOMAIN deployedVersions :
        (/\ deployedVersions[i].versionId = deployedVersions[j].versionId
         /\ deployedVersions[i].environmentId = deployedVersions[j].environmentId
         /\ deployedVersions[i].undeployedAt = NoTime
         /\ deployedVersions[j].undeployedAt = NoTime) => i = j

\* A version deployed to two environments, undeployed from one, and
\* recordDeployment called again for the pair that is still active.
C4_Witness ==
    /\ ret.op = "recordDeployment"
    /\ ret.outcome = "existing"
    /\ \E i, j \in DOMAIN deployedVersions :
          /\ deployedVersions[i].versionId = deployedVersions[j].versionId
          /\ deployedVersions[i].undeployedAt # NoTime
          /\ deployedVersions[j].undeployedAt = NoTime

\* A call of recordDeployment / recordUndeployment.
RecordDeploymentStep == ret = Idle /\ ret'.op = "recordDeployment"

RecordUndeploymentStep == ret = Idle /\ ret'.op = "recordUndeployment"

\* The active rows of the pair a call names, in the tables given.
ActiveRowsOf(ps, vs, es, dv, args) ==
    {i \in DOMAIN dv :
        /\ dv[i].undeployedAt = NoTime
        /\ dv[i].versionId \in DOMAIN vs
        /\ vs[dv[i].versionId].number = args.version
        /\ ps[vs[dv[i].versionId].pacticipantId].name = args.pacticipant
        /\ dv[i].environmentId \in DOMAIN es
        /\ es[dv[i].environmentId].name = args.environment}

\* C15: a deployment that recordDeployment returns is, in the store the call
\* leaves, the active row of the pair; and a recordDeployment call for a pair
\* that has an active row returns that row, with its id and deployedAt, and
\* changes no table. So the second of two calls in a row with the same
\* arguments returns what the first returned and leaves the store as the
\* first left it.
C15_DeployTwice ==
    [][RecordDeploymentStep =>
          /\ ret'.result # <<>> =>
                /\ ret'.result[1].id \in ActiveRowsOf(pacticipants', versions', environments',
                                                      deployedVersions', ret'.args)
                /\ deployedVersions'[ret'.result[1].id] = ret'.result[1]
          /\ \A i \in ActiveRowsOf(pacticipants, versions, environments,
                                     deployedVersions, ret'.args) :
                /\ ret'.result = <<deployedVersions[i]>>
                /\ UNCHANGED tables
      ]_vars

\* The second call comes a second after the first and returns the row with
\* the first call's deployedAt.
C15_Witness ==
    /\ ret.op = "recordDeployment"
    /\ Len(ret.result) = 1
    /\ ret.result[1].deployedAt < now
    /\ Len(deployedVersions) = 1

\* C16: recordUndeployment for a pair without an active deployment (unknown
\* version, unknown environment, never deployed or already undeployed)
\* returns false and changes no table; the environment is not created.
C16_UndeployWithoutActive ==
    [][(/\ RecordUndeploymentStep
        /\ ActiveRowsOf(pacticipants, versions, environments, deployedVersions,
                        ret'.args) = {}) =>
          /\ ret'.result = FALSE
          /\ UNCHANGED tables
      ]_vars

\* The version is stored and deployed elsewhere, the environment named is
\* not stored, and the call returned false.
C16_Witness ==
    /\ ret.op = "recordUndeployment"
    /\ ret.result = FALSE
    /\ getVersion(ret.args.pacticipant, ret.args.version) # NoId
    /\ getEnvironment(ret.args.environment) = NoId
    /\ isVersionDeployed(ret.args.pacticipant, ret.args.version, NULL)

\* C17: recordUndeployment for a pair with an active deployment returns true,
\* sets undeployedAt of that row to the current time and changes nothing
\* else, and isVersionDeployed is false for the pair afterwards; and no step
\* of any operation removes a deployment row.
C17_UndeployStampsRow ==
    [][/\ RecordUndeploymentStep =>
             \A i \in ActiveRowsOf(pacticipants, versions, environments,
                                    deployedVersions, ret'.args) :
                 /\ ret'.result = TRUE
                 /\ deployedVersions' = [deployedVersions EXCEPT ![i].undeployedAt = now]
                 /\ deployedVersions'[i].undeployedAt # NoTime
                 /\ UNCHANGED <<pacticipants, versions, tags, pacts, verifications,
                                environments>>
                 /\ ~VersionDeployed(pacticipants', versions', environments',
                                     deployedVersions', ret'.args.pacticipant,
                                     ret'.args.version, ret'.args.environment)
       /\ Len(deployedVersions') >= Len(deployedVersions)
       /\ \A i \in DOMAIN deployedVersions :
             /\ deployedVersions'[i].id = deployedVersions[i].id
             /\ deployedVersions'[i].versionId = deployedVersions[i].versionId
             /\ deployedVersions'[i].environmentId = deployedVersions[i].environmentId
             /\ deployedVersions'[i].deployedAt = deployedVersions[i].deployedAt
      ]_vars

\* The version was deployed to two environments and has just been undeployed
\* from one of them.
C17_Witness ==
    /\ ret.op = "recordUndeployment"
    /\ ret.result = TRUE
    /\ ~isVersionDeployed(ret.args.pacticipant, ret.args.version, ret.args.environment)
    /\ isVersionDeployed(ret.args.pacticipant, ret.args.version, NULL)

\* ------------------------------------------- claims on matrix and verdict
\* The stored pacts whose consumer version is (participant, number).
PactsOfVersion(participant, number) ==
    {i \in DOMAIN pacts :
        /\ pacticipants[versions[pacts[i].consumerVersionId].pacticipantId].name = participant
        /\ versions[pacts[i].consumerVersionId].number = number}

\* The stored verifications of a pact.
VerificationsOf(pact) == {i \in DOMAIN verifications : verifications[i].pactId = pact}

\* The stored pact a matrix row is about.
RowPact(row) == getPact(row.provider.name, row.consumer.name, row.consumer.version)

RowsUnverified(matrix) == {k \in DOMAIN matrix : Len(matrix[k].verificationResult) = 0}

RowsFailed(matrix) ==
    {k \in DOMAIN matrix : /\ Len(matrix[k].verificationResult) = 1
                           /\ matrix[k].verificationResult[1].success = FALSE}

\* C1: canIDeploy decides from the rows of the pacts of (participant,
\* version), one row per pact: with an unverified row it answers
\* deployable = false and the number of unverified rows, whatever rows
\* failed; else with a failed row deployable = false and the number of failed
\* rows; else deployable = true. Without a target tag a row is unverified
\* exactly when its pact has no verification.
C1_VerdictFromMatrix ==
    ret.op = "canIDeploy" =>
        LET version == PactsOfVersion(ret.args.pacticipant, ret.args.version)
            matrix == ret.result.matrix
            unverified == Cardinality(RowsUnverified(matrix))
            failed == Cardinality(RowsFailed(matrix))
        IN
        /\ Len(matrix) = Cardinality(version)
        /\ {RowPact(matrix[k]) : k \in DOMAIN matrix} = version
        /\ ret.args.toTag = NULL =>
              \A k \in DOMAIN matrix :
                  k \in RowsUnverified(matrix) <=> VerificationsOf(RowPact(matrix[k])) = {}
        /\ unverified > 0 =>
              /\ ret.result.deployable = FALSE
              /\ ret.result.reason = <<unverified, " pact(s) have not been verified">>
        /\ (unverified = 0 /\ failed > 0) =>
              /\ ret.result.deployable = FALSE
              /\ ret.result.reason = <<failed, " pact verification(s) failed">>
        /\ (unverified = 0 /\ failed = 0) => ret.result.deployable = TRUE

\* One row unverified and one row failed.
C1_Witness ==
    /\ ret.op = "canIDeploy"
    /\ ret.args.toTag = NULL
    /\ RowsUnverified(ret.result.matrix) # {}
    /\ RowsFailed(ret.result.matrix) # {}
    /\ ret.result.deployable = FALSE

\* C5: canIDeploy answers deployable = true with an empty matrix whenever no
\* pact has (participant, version) as its consumer version.
C5_NoPactsDeployable ==
    (/\ ret.op = "canIDeploy"
     /\ PactsOfVersion(ret.args.pacticipant, ret.args.version) = {}) =>
        /\ ret.result.deployable = TRUE
        /\ ret.result.matrix = <<>>

\* The participant is a provider only, and a pact it provides has a failed
\* verification.
C5_Witness ==
    /\ ret.op = "canIDeploy"
    /\ ret.args.pacticipant = "api"
    /\ ret.result.deployable = TRUE
    /\ \E i \in DOMAIN verifications :
          /\ verifications[i].success = FALSE
          /\ pacticipants[pacts[verifications[i].pactId].providerId].name = "api"

\* The verifications of a pact made by one provider version.
VerificationsBy(pact, providerVersion) ==
    {i \in VerificationsOf(pact) : verifications[i].providerVersionId = providerVersion}

\* C6: with a target tag, a row's verification result is absent when
\* getLatestVersionByTag resolves no version of the pact's provider, and else
\* is that of a verification of the pact by the version resolved than which
\* that version made none later, or absent when that version made none. So
\* canIDeploy toward a tag that no version of any row's provider carries
\* answers deployable = false with every row counted as unverified, while
\* without a tag it answers deployable = true when every verification of the
\* version's pacts succeeded and each pact has one.
C6_TowardTag ==
    /\ (ret.op \in {"getMatrix", "canIDeploy"} /\ ret.args.toTag # NULL) =>
          LET matrix == IF ret.op = "getMatrix" THEN ret.result ELSE ret.result.matrix IN
          \A k \in DOMAIN matrix :
              LET resolved == getLatestVersionByTag(matrix[k].provider.name, ret.args.toTag)
                  result == matrix[k].verificationResult
              IN
              IF resolved = {} THEN result = <<>>
              ELSE \E pv \in resolved :
                      IF VerificationsBy(RowPact(matrix[k]), pv) = {} THEN result = <<>>
                      ELSE \E i \in VerificationsBy(RowPact(matrix[k]), pv) :
                              /\ \A j \in VerificationsBy(RowPact(matrix[k]), pv) :
                                    verifications[j].verifiedAt <= verifications[i].verifiedAt
                              /\ result = <<[success |-> verifications[i].success,
                                             verifiedAt |-> verifications[i].verifiedAt]>>
    /\ (/\ ret.op = "canIDeploy"
        /\ ret.args.toTag # NULL
        /\ PactsOfVersion(ret.args.pacticipant, ret.args.version) # {}
        /\ \A i \in PactsOfVersion(ret.args.pacticipant, ret.args.version) :
              getLatestVersionByTag(pacticipants[pacts[i].providerId].name,
                                    ret.args.toTag) = {}) =>
          /\ ret.result.deployable = FALSE
          /\ ret.result.reason =
                <<Cardinality(PactsOfVersion(ret.args.pacticipant, ret.args.version)),
                  " pact(s) have not been verified">>
    /\ (/\ ret.op = "canIDeploy"
        /\ ret.args.toTag = NULL
        /\ \A i \in PactsOfVersion(ret.args.pacticipant, ret.args.version) :
              /\ VerificationsOf(i) # {}
              /\ \A j \in VerificationsOf(i) : verifications[j].success) =>
          ret.result.deployable = TRUE

\* The pact was verified successfully by a provider version without the tag,
\* the version that carries the tag has not verified it, and canIDeploy
\* toward the tag answers that it is unverified.
C6_Witness ==
    /\ ret.op = "canIDeploy"
    /\ ret.args.toTag # NULL
    /\ ret.result.deployable = FALSE
    /\ Len(ret.result.matrix) = 1
    /\ getLatestVersionByTag(ret.result.matrix[1].provider.name, ret.args.toTag) # {}
    /\ \E i \in VerificationsOf(RowPact(ret.result.matrix[1])) :
          /\ verifications[i].success
          /\ TagByKey(verifications[i].providerVersionId, ret.args.toTag) = NoId

\* C7: getMatrix without a target tag reports in a pact's row the outcome of
\* the verification of that pact that was recorded last.
C7_LastRecordedVerification ==
    (ret.op = "getMatrix" /\ ret.args.toTag = NULL) =>
        \A k \in DOMAIN ret.result :
            LET recorded == VerificationsOf(RowPact(ret.result[k])) IN
            recorded # {} =>
                ret.result[k].verificationResult =
                    <<[success |-> verifications[Max(recorded)].success,
                       verifiedAt |-> verifications[Max(recorded)].verifiedAt]>>

\* ------------------------------------------------------ claims on the store
\* The ids of the rows of a table.
RowIds(table) == {table[i].id : i \in DOMAIN table}

\* C12: every pact refers to a stored consumer version and a stored provider,
\* every verification to a stored pact and a stored provider version, every
\* version to a stored participant, every tag to a stored version, every
\* deployment to a stored version and a stored environment.
C12_ReferentialIntegrity ==
    /\ \A i \in DOMAIN pacts :
          /\ pacts[i].consumerVersionId \in RowIds(versions)
          /\ pacts[i].providerId \in RowIds(pacticipants)
    /\ \A i \in DOMAIN verifications :
          /\ verifications[i].pactId \in RowIds(pacts)
          /\ verifications[i].providerVersionId \in RowIds(versions)
    /\ \A i \in DOMAIN versions : versions[i].pacticipantId \in RowIds(pacticipants)
    /\ \A i \in DOMAIN tags : tags[i].versionId \in RowIds(versions)
    /\ \A i \in DOMAIN deployedVersions :
          /\ deployedVersions[i].versionId \in RowIds(versions)
          /\ deployedVersions[i].environmentId \in RowIds(environments)

\* Every table that refers to another holds a row.
C12_Witness ==
    /\ pacts # <<>>
    /\ verifications # <<>>
    /\ tags # <<>>
    /\ \E i \in DOMAIN deployedVersions : deployedVersions[i].undeployedAt # NoTime

\* A call of publishVerification.
VerifyStep == ret = Idle /\ ret'.op = "publishVerification"

\* C13: a publishVerification call whose hash a stored pact carries appends one
\* verification row, of such a pact and with the outcome given, returns it, and
\* leaves every verification stored before as it was, also when a verification
\* of the same pact by the same provider version with the same outcome is
\* stored; and no step of any operation removes a verification of a pact.
C13_VerificationAppended ==
    [][/\ (VerifyStep /\ \E p \in DOMAIN pacts : pacts[p].contentSha = ret'.args.sha) =>
             /\ Len(verifications') = Len(verifications) + 1
             /\ \A i \in DOMAIN verifications : verifications'[i] = verifications[i]
             /\ pacts[verifications'[Len(verifications')].pactId].contentSha = ret'.args.sha
             /\ verifications'[Len(verifications')].success = ret'.args.success
             /\ ret'.result = <<verifications'[Len(verifications')]>>
             /\ pacts' = pacts
       /\ \A p \in DOMAIN pacts :
             {i \in DOMAIN verifications : verifications[i].pactId = p}
                 \subseteq {i \in DOMAIN verifications' : verifications'[i].pactId = p}
      ]_vars

\* The verification just returned repeats one stored before: same pact, same
\* provider version, same outcome.
C13_Witness ==
    /\ ret.op = "publishVerification"
    /\ Len(ret.result) = 1
    /\ \E i \in DOMAIN verifications :
          /\ i < ret.result[1].id
          /\ verifications[i].pactId = ret.result[1].pactId
          /\ verifications[i].providerVersionId = ret.result[1].providerVersionId
          /\ verifications[i].success = ret.result[1].success
    /\ verifications[ret.result[1].id] = ret.result[1]

\* C14: a publishVerification call whose hash no stored pact carries returns
\* null and changes no table: the provider and the provider version named in
\* the call are not created.
C14_UnknownShaChangesNothing ==
    [][(VerifyStep /\ \A p \in DOMAIN pacts : pacts[p].contentSha # ret'.args.sha) =>
          /\ ret'.result = <<>>
          /\ UNCHANGED tables
      ]_vars

\* A pact is stored, the call named another hash and a provider that is not
\* stored, and returned null.
C14_Witness ==
    /\ ret.op = "publishVerification"
    /\ ret.result = <<>>
    /\ pacts # <<>>
    /\ getPacticipant(ret.args.provider) = NoId

\* --------------------------------------------------------- claims on tags
\* The stored versions of a participant that carry a tag.
VersionsTagged(participant, tagName) ==
    {v \in DOMAIN versions :
        /\ pacticipants[versions[v].pacticipantId].name = participant
        /\ \E t \in DOMAIN tags : tags[t].versionId = v /\ tags[t].name = tagName}

\* C18: getLatestVersionByTag returns a version of the participant that
\* carries the tag and whose createdAt no other such version exceeds, in
\* whatever order the tags were applied, and returns undefined when the
\* participant is not stored or none of its versions carries the tag.
C18_LatestVersionByTag ==
    ret.op = "getLatestVersionByTag" =>
        LET tagged == VersionsTagged(ret.args.pacticipant, ret.args.tag) IN
        IF tagged = {} THEN ret.result = <<>>
        ELSE /\ Len(ret.result) = 1
             /\ ret.result[1].id \in tagged
             /\ versions[ret.result[1].id] = ret.result[1]
             /\ \A v \in tagged : versions[v].createdAt <= ret.result[1].createdAt

\* The version returned was tagged before an older version was.
C18_Witness ==
    /\ ret.op = "getLatestVersionByTag"
    /\ Len(ret.result) = 1
    /\ \E t, u \in DOMAIN tags :
          /\ tags[t].name = ret.args.tag
          /\ tags[u].name = ret.args.tag
          /\ tags[t].versionId = ret.result[1].id
          /\ t < u
          /\ versions[tags[u].versionId].pacticipantId = ret.result[1].pacticipantId
          /\ versions[tags[u].versionId].createdAt < ret.result[1].createdAt

\* A call of addTag.
AddTagStep == ret = Idle /\ ret'.op = "addTag"

\* The tag rows of the (participant, version, name) a call names.
TagRowsOf(ps, vs, ts, args) ==
    {t \in DOMAIN ts :
        /\ ts[t].name = args.tag
        /\ vs[ts[t].versionId].number = args.version
        /\ ps[vs[ts[t].versionId].pacticipantId].name = args.pacticipant}

\* C19: a tag that addTag returns is, in the store the call leaves, a row of
\* the (version, name) named; an addTag call for a (version, name) that has a
\* row returns that row and changes no table, so a second call with the same
\* arguments returns the first call's tag and adds nothing; and after every
\* step there is at most one tag row per (version, name).
C19_AddTagTwice ==
    [][/\ AddTagStep =>
             /\ ret'.result # <<>> =>
                   /\ ret'.result[1].id \in TagRowsOf(pacticipants', versions', tags',
                                                      ret'.args)
                   /\ tags'[ret'.result[1].id] = ret'.result[1]
             /\ \A t \in TagRowsOf(pacticipants, versions, tags, ret'.args) :
                   /\ ret'.result = <<tags[t]>>
                   /\ UNCHANGED tables
       /\ \A t, u \in DOMAIN tags' :
             (tags'[t].versionId = tags'[u].versionId /\ tags'[t].name = tags'[u].name)
                 => t = u
      ]_vars

\* The second call comes a second after the first and returns the tag the
\* first created.
C19_Witness ==
    /\ ret.op = "addTag"
    /\ Len(ret.result) = 1
    /\ ret.result[1].createdAt < now
    /\ Len(tags) = 1

\* C20: addTag and recordDeployment for a (participant, version) that is not
\* stored return null and change no table.
C20_UnknownVersionChangesNothing ==
    [][(/\ ret = Idle
        /\ ret'.op \in {"addTag", "recordDeployment"}
        /\ ~\E v \in DOMAIN versions :
               /\ versions[v].number = ret'.args.version
               /\ pacticipants[versions[v].pacticipantId].name = ret'.args.pacticipant) =>
          /\ ret'.result = <<>>
          /\ UNCHANGED tables
      ]_vars

\* recordDeployment was called for a stored participant and a version number
\* it does not have, naming an environment that is not stored.
C20_Witness ==
    /\ ret.op = "recordDeployment"
    /\ ret.result = <<>>
    /\ getPacticipant(ret.args.pacticipant) # NoId
    /\ \A v \in DOMAIN versions : versions[v].number # ret.args.version
    /\ getEnvironment(ret.args.environment) = NoId

\* ------------------------------------------------------ claims on selectors
\* C2: with a non-empty selector list, the notices of each returned pact are
\* the notices of the selectors that matched it, in selector order, and of no
\* other selector.
C2_NoticesOfMatchingSelectors ==
    (ret.op = "getPactsForVerification" /\ Len(ret.args.selectors) > 0) =>
        \A e \in DOMAIN ret.result :
            LET selectors == ret.args.selectors
                NoticesFrom[k \in 1..(Len(selectors) + 1)] ==
                    IF k > Len(selectors) THEN <<>>
                    ELSE (IF SelectorKeeps(selectors[k], ret.result[e].pact)
                          THEN SelectorNotices(selectors[k]) ELSE <<>>)
                         \o NoticesFrom[k + 1]
            IN ret.result[e].notices = NoticesFrom[1]

\* ------------------------------------------------------------ publish runs
\* publishPact alone: one consumer publishes two versions to two providers,
\* with either content and with or without a branch.
PublishAny ==
    /\ ret = Idle
    /\ \E v \in Numbers, p \in {"api", "db"}, content \in Contents, b \in Branches :
          publishPact("web", v, p, content, b)

TickPublish == ret = Idle /\ Tick

NextPublish == TickPublish \/ PublishAny \/ Return

SpecPublish == Init /\ [][NextPublish]_vars

\* --------------------------------------------------------- deployment runs
\* Two consumer versions come to exist by publishing; they are deployed to
\* and undeployed from two environments, and queried.
PublishForDeploy ==
    /\ ret = Idle
    /\ \E v \in Numbers : publishPact("web", v, "api", [interactions |-> 0], NULL)

RecordDeployment ==
    /\ ret = Idle
    /\ \E v \in Numbers, e \in EnvNames : recordDeployment("web", v, e)

RecordUndeployment ==
    /\ ret = Idle
    /\ \E v \in Numbers, e \in EnvNames : recordUndeployment("web", v, e)

QueryDeployed ==
    /\ ret = Idle
    /\ \E v \in Numbers, e \in EnvNames \cup {NULL} : IsVersionDeployed("web", v, e)

TickDeploy == ret = Idle /\ Tick

NextDeploy ==
    TickDeploy \/ PublishForDeploy \/ RecordDeployment \/ RecordUndeployment
    \/ QueryDeployed \/ Return

SpecDeploy == Init /\ [][NextDeploy]_vars

\* ------------------------------------------------------ can-i-deploy runs
\* One consumer with two versions publishes to two providers; each provider
\* verifies the content published for it; can-i-deploy is asked for the
\* consumer and for a provider. The whole run falls within one second, so
\* every verification of a pact has the same verifiedAt and a row may report
\* any of them: the rows of a run with the clock advancing are among these.
ContentFor(provider) == [interactions |-> IF provider = "api" THEN 0 ELSE 1]

PublishForDecide ==
    /\ ret = Idle
    /\ \E v \in Numbers, p \in {"api", "db"} :
          publishPact("web", v, p, ContentFor(p), NULL)

VerifyForDecide ==
    /\ ret = Idle
    /\ \E p \in {"api", "db"}, success \in BOOLEAN :
          publishVerification(p, "web", sha256(JSONstringify(ContentFor(p))), "1",
                              success, NULL)

CanIDeploy ==
    /\ ret = Idle
    /\ \E p \in {"web", "api"}, v \in Numbers : canIDeploy(p, v, NULL)

NextDecide == PublishForDecide \/ VerifyForDecide \/ CanIDeploy \/ Return

SpecDecide == Init /\ [][NextDecide]_vars

\* ------------------------------------------------------------- matrix runs
\* One consumer publishes two versions to one provider; two provider versions
\* verify and are tagged; the matrix is read with and without a target tag.
PublishForMatrix ==
    /\ ret = Idle
    /\ \E v \in Numbers : publishPact("web", v, "api", ContentFor("api"), NULL)

VerifyForMatrix ==
    /\ ret = Idle
    /\ \E v \in Numbers, success \in BOOLEAN :
          publishVerification("api", "web", sha256(JSONstringify(ContentFor("api"))), v,
                              success, NULL)

TagForMatrix ==
    /\ ret = Idle
    /\ \E v \in Numbers, t \in TagNames : addTag("api", v, t)

QueryMatrix ==
    /\ ret = Idle
    /\ \E v \in Numbers \cup {NULL}, t \in TagNames \cup {NULL} : GetMatrix("web", v, t)

CanIDeployMatrix ==
    /\ ret = Idle
    /\ \E v \in Numbers, t \in TagNames \cup {NULL} : canIDeploy("web", v, t)

TickMatrix == ret = Idle /\ Tick

NextMatrix ==
    TickMatrix \/ PublishForMatrix \/ VerifyForMatrix \/ TagForMatrix \/ QueryMatrix
    \/ CanIDeployMatrix \/ Return

SpecMatrix == Init /\ [][NextMatrix]_vars

\* ----------------------------------------------------------- selector runs
\* Two consumers publish to one provider; consumer versions are tagged and
\* deployed; the provider asks for the pacts to verify with one or two
\* selectors.
NoSelector ==
    [consumer |-> NULL, tag |-> NULL, branch |-> NULL, mainBranch |-> FALSE,
     deployed |-> FALSE, environment |-> NULL, latest |-> FALSE]

Selectors ==
    {[NoSelector EXCEPT !.tag = "prod"],
     [NoSelector EXCEPT !.deployed = TRUE, !.environment = "prod"],
     [NoSelector EXCEPT !.consumer = "web"],
     [NoSelector EXCEPT !.latest = TRUE]}

SelectorLists == {<<>>} \cup {<<a>> : a \in Selectors} \cup (Selectors \X Selectors)

PublishForSelect ==
    /\ ret = Idle
    /\ \E c \in {"web", "app"}, v \in Numbers :
          publishPact(c, v, "api", ContentFor("api"), NULL)

TagForSelect ==
    /\ ret = Idle
    /\ \E c \in {"web", "app"}, v \in Numbers, t \in TagNames : addTag(c, v, t)

DeployForSelect ==
    /\ ret = Idle
    /\ \E c \in {"web", "app"}, v \in Numbers : recordDeployment(c, v, "prod")

PactsForVerification ==
    /\ ret = Idle
    /\ \E selectors \in SelectorLists : getPactsForVerification("api", selectors)

TickSelect == ret = Idle /\ Tick

NextSelect ==
    TickSelect \/ PublishForSelect \/ TagForSelect \/ DeployForSelect
    \/ PactsForVerification \/ Return

SpecSelect == Init /\ [][NextSelect]_vars

\* --------------------------------------------------------------- store runs
\* Every operation that writes: a consumer publishes two versions to a
\* provider, the provider verifies, versions are tagged, deployed and
\* undeployed. The whole run falls within one second; no operation that
\* writes reads the clock to decide what to do, so the rows of a run with the
\* clock advancing differ from these in their timestamps only.
PublishForStore ==
    /\ ret = Idle
    /\ \E v \in Numbers : publishPact("web", v, "api", ContentFor("api"), NULL)

VerifyForStore ==
    /\ ret = Idle
    /\ \E success \in BOOLEAN :
          publishVerification("api", "web", sha256(JSONstringify(ContentFor("api"))),
                              "1", success, NULL)

TagForStore ==
    /\ ret = Idle
    /\ \E p \in {"web", "api"} : addTag(p, "1", "prod")

DeployForStore ==
    /\ ret = Idle
    /\ \E v \in Numbers : recordDeployment("web", v, "prod")

UndeployForStore ==
    /\ ret = Idle
    /\ \E v \in Numbers : recordUndeployment("web", v, "prod")

NextStore ==
    PublishForStore \/ VerifyForStore \/ TagForStore \/ DeployForStore
    \/ UndeployForStore \/ Return

SpecStore == Init /\ [][NextStore]_vars

\* ----------------------------------------------------------------- tag runs
\* A consumer publishes two versions; versions of it and of a participant
\* that is never stored are tagged and deployed, and the latest version by
\* tag is asked for.
PublishForTag ==
    /\ ret = Idle
    /\ \E v \in Numbers : publishPact("web", v, "api", ContentFor("api"), NULL)

TagForTag ==
    /\ ret = Idle
    /\ \E p \in {"web", "db"}, v \in Numbers, t \in TagNames : addTag(p, v, t)

DeployForTag ==
    /\ ret = Idle
    /\ \E p \in {"web", "db"}, v \in Numbers : recordDeployment(p, v, "prod")

QueryLatestByTag ==
    /\ ret = Idle
    /\ \E p \in {"web", "db"}, t \in TagNames : GetLatestVersionByTag(p, t)

TickTag == ret = Idle /\ Tick

NextTag ==
    TickTag \/ PublishForTag \/ TagForTag \/ DeployForTag \/ QueryLatestByTag \/ Return

SpecTag == Init /\ [][NextTag]_vars

\* ------------------------------------------------------------ version runs
\* "web" publishes to "api", "api" verifies (which stores its version without
\* a branch) and publishes to "db" itself, with or without a branch. The
\* clock stands still: no operation reads it to decide what to write.
PublishForVersion ==
    /\ ret = Idle
    /\ \E c \in {"web", "api"}, v \in Numbers, b \in Branches :
          publishPact(c, v, IF c = "web" THEN "api" ELSE "db", ContentFor("api"), b)

VerifyForVersion ==
    /\ ret = Idle
    /\ \E v \in Numbers :
          publishVerification("api", "web", sha256(JSONstringify(ContentFor("api"))), v,
                              TRUE, NULL)

NextVersion == PublishForVersion \/ VerifyForVersion \/ Return

SpecVersion == Init /\ [][NextVersion]_vars

\* C21: once a version exists, no operation changes its number, branch or
\* buildUrl: every step leaves these three columns of every stored version
\* as they were; so publishPact with another branch for an existing consumer
\* version leaves the stored branch, also when the version was first stored
\* without a branch as a provider version by publishVerification.
C21_VersionImmutable ==
    [][\A i \in DOMAIN versions :
          /\ i \in DOMAIN versions'
          /\ versions'[i].number = versions[i].number
          /\ versions'[i].branch = versions[i].branch
          /\ versions'[i].buildUrl = versions[i].buildUrl]_vars

\* publishPact with branch "main" has returned for a consumer version that
\* publishVerification had stored without a branch.
C21_Witness ==
    /\ ret.op = "publishPact"
    /\ ret.args.branch = "main"
    /\ versions[ret.pact.consumerVersionId].branch = NULL
    /\ \E i \in DOMAIN verifications :
          verifications[i].providerVersionId = ret.pact.consumerVersionId

\* -------------------------------------------------------- environment runs
\* PUT /environments/:name with a body that leaves out displayName and
\* production, names them, or gives null for them.
PutEnvironment ==
    /\ ret = Idle
    /\ \E name \in EnvNames, displayName \in {Undefined, NULL, "Production"},
          production \in {Undefined, NULL, "true", "false"} :
          GetOrCreateEnvironment(name, displayName, production)

TickEnvironment == ret = Idle /\ Tick

NextEnvironment == TickEnvironment \/ PutEnvironment \/ Return

SpecEnvironment == Init /\ [][NextEnvironment]_vars

\* C22: getOrCreateEnvironment returns a record equal to the stored row of
\* the environment named (the part of the claim that fails: a field given as
\* null is stored as NULL and returned with its former value).
C22_ReturnsStoredRow ==
    ret.op = "getOrCreateEnvironment" =>
        ret.result = environments[EnvironmentByName(environments, ret.args.name)]

\* The rest of C22, which holds: on every call for an existing environment
\* the fields supplied take the value given, the fields left out keep theirs,
\* the other rows and the number of rows stay, and a call with the name only
\* changes nothing.
C22_OverwritesSupplied ==
    [][\A i \in DOMAIN environments :
          (ret' # ret /\ ret'.op = "getOrCreateEnvironment"
           /\ environments[i].name = ret'.args.name) =>
             /\ Len(environments') = Len(environments)
             /\ \A j \in DOMAIN environments : j # i => environments'[j] = environments[j]
             /\ environments'[i].displayName =
                   IF ret'.args.displayName = Undefined
                   THEN environments[i].displayName ELSE ret'.args.displayName
             /\ environments'[i].production =
                   IF ret'.args.production = Undefined
                   THEN environments[i].production ELSE ret'.args.production
             /\ environments'[i].id = environments[i].id
             /\ environments'[i].createdAt = environments[i].createdAt]_vars

\* ------------------------------------------------- claims on selector lists
\* The pacts of a result of getPactsForVerification.
PactsReturned(result) == {result[e].pact : e \in DOMAIN result}

\* The selector list in another order.
Reordered(selectors, order) == [k \in DOMAIN selectors |-> selectors[order[k]]]

\* C23: for a non-empty selector list, the pacts getPactsForVerification
\* returns are the union of the pacts it returns for each selector alone (on
\* the same candidates), are among the latest pacts of the provider, come
\* once each, and are the same for every order of the selectors.
C23_UnionOfSelectors ==
    (/\ ret.op = "getPactsForVerification"
     /\ Len(ret.args.selectors) > 0
     /\ getPacticipant(ret.args.provider) # NoId) =>
    \E results \in getLatestPactsForProvider(ret.args.provider) :
       LET selectors == ret.args.selectors
           returned == PactsReturned(ret.result)
       IN /\ returned = UNION {PactsReturned(SelectPacts(<<selectors[k]>>, results)) :
                                  k \in DOMAIN selectors}
          /\ returned \subseteq {results[e] : e \in DOMAIN results}
          /\ Cardinality(returned) = Len(ret.result)
          /\ \A order \in Orderings(DOMAIN selectors) :
                PactsReturned(SelectPacts(Reordered(selectors, order), results)) = returned

\* Two selectors have each kept one pact, not the same one, and both pacts
\* are returned.
C23_Witness ==
    /\ ret.op = "getPactsForVerification"
    /\ Len(ret.args.selectors) = 2
    /\ Len(ret.result) = 2
    /\ \E results \in getLatestPactsForProvider(ret.args.provider) :
          /\ Cardinality(PactsReturned(SelectPacts(<<ret.args.selectors[1]>>, results))) = 1
          /\ Cardinality(PactsReturned(SelectPacts(<<ret.args.selectors[2]>>, results))) = 1

\* ----------------------------------------------------- for-verification runs
\* notices.map((text) => ({ text: `This pact is being verified because
\* ${text}`, ... })) of the for-verification routes, for each returned pact.
NoticeTexts(results) ==
    [e \in DOMAIN results |->
        [pact |-> results[e].pact,
         notices |-> [k \in DOMAIN results[e].notices |->
                         <<Because>> \o results[e].notices[k]]]]

\* GET or POST /pacts/provider/:provider/for-verification. GET asks for
\* [{ latest: true }]; POST asks for body.consumerVersionSelectors || [{
\* latest: true }], given here as <<>> when the body has none and as <<list>>
\* when it has one (an empty array is truthy and is passed on).
ForVerification(method, providerName, given) ==
    LET selectors == IF method = "GET" \/ given = <<>>
                     THEN <<[NoSelector EXCEPT !.latest = TRUE]>>
                     ELSE given[1]
    IN
    /\ \E results \in getLatestPactsForProvider(providerName) :
          ret' = [op |-> "forVerification",
                  args |-> [method |-> method, provider |-> providerName,
                            selectors |-> selectors],
                  pacts |-> NoticeTexts(IF getPacticipant(providerName) = NoId THEN <<>>
                                        ELSE SelectPacts(selectors, results))]
    /\ UNCHANGED <<tables, now, instance>>

\* Two consumers publish to one provider and a version is tagged; the
\* provider asks for the pacts to verify, by GET and by POST with no selector
\* list, an empty one, or one or two selectors.
PublishForNotices ==
    /\ ret = Idle
    /\ \E c \in {"web", "app"}, v \in Numbers :
          publishPact(c, v, "api", ContentFor("api"), NULL)

TagForNotices ==
    /\ ret = Idle
    /\ \E c \in {"web", "app"} : addTag(c, "1", "prod")

GetForVerification ==
    /\ ret = Idle
    /\ ForVerification("GET", "api", <<>>)

PostForVerification ==
    /\ ret = Idle
    /\ \E given \in {<<>>} \cup {<<list>> : list \in SelectorLists} :
          ForVerification("POST", "api", given)

TickNotices == ret = Idle /\ Tick

NextNotices ==
    TickNotices \/ PublishForNotices \/ TagForNotices \/ GetForVerification
    \/ PostForVerification \/ Return

SpecNotices == Init /\ [][NextNotices]_vars

\* C24: every notice of a pacts-for-verification response reads "This pact
\* is being verified because <reason>": it starts with these words and has
\* them once; with an empty selector list each pact has the one notice that
\* { latest: true } gives, whose reason is "it is the latest pact".
C24_BecauseOnce ==
    ret.op = "forVerification" =>
        \A e \in DOMAIN ret.pacts :
            /\ \A k \in DOMAIN ret.pacts[e].notices :
                  LET text == ret.pacts[e].notices[k] IN
                  /\ text[1] = Because
                  /\ Cardinality({i \in DOMAIN text : text[i] = Because}) = 1
            /\ ret.args.selectors = <<>> =>
                  ret.pacts[e].notices = <<<<Because, "it is the latest pact">>>>

\* --------------------------------------------------------- authentication
\* A token is the sequence of its characters. An Authorization header is its
\* scheme and the words after it, as authHeader.split(" ") cuts it; NoHeader
\* is a request without the header.
Secret == <<1, 2, 3, 4, 5, 6, 7, 8>>
ShortSecret == <<1, 2, 3>>
WrongSecret == <<1, 2, 3, 4, 5, 6, 7, 9>>
NoHeader == [scheme |-> NULL, words |-> <<>>]

\* Mutant of timingSafeEqual: strings of the same length are equal.
timingSafeEqual_LengthOnly(a, b) == Len(a) = Len(b)

\* timingSafeEqual(a, b): false when the lengths differ; otherwise the XORs
\* of the characters at each position are OR-ed and the result is 0 when
\* every position agrees.
timingSafeEqual(a, b) ==
    IF Len(a) # Len(b) THEN FALSE
    ELSE \A i \in 1..Len(a) : a[i] = b[i]

\* const [scheme, token] = authHeader.split(" "); !token
NoToken(header) == header.words = <<>> \/ header.words[1] = <<>>

\* authMiddleware as in part_002: "next" when the request is passed to the
\* route, the status of the response otherwise. An unset PACT_BROKER_TOKEN is
\* the empty sequence: no token of a header, being non-empty, is equal to it.
authMiddlewareCompare(method, header, PACT_BROKER_TOKEN, ALLOW_PUBLIC_READ) ==
    IF ALLOW_PUBLIC_READ = "true" /\ method \in {"GET", "HEAD"} THEN "next"
    ELSE IF header = NoHeader THEN "401"
    ELSE IF header.scheme # "Bearer" \/ NoToken(header) THEN "401"
    ELSE IF header.words[1] # PACT_BROKER_TOKEN THEN "401"
    ELSE "next"

\* authMiddleware as in part_003: the token must be configured with 8
\* characters at least, and is compared by timingSafeEqual.
authMiddleware(method, header, PACT_BROKER_TOKEN, ALLOW_PUBLIC_READ) ==
    IF ALLOW_PUBLIC_READ = "true" /\ method \in {"GET", "HEAD"} THEN "next"
    ELSE IF Len(PACT_BROKER_TOKEN) < 8 THEN "500"
    ELSE IF header = NoHeader THEN "401"
    ELSE IF header.scheme # "Bearer" \/ NoToken(header) THEN "401"
    ELSE IF ~timingSafeEqual(header.words[1], PACT_BROKER_TOKEN) THEN "401"
    ELSE "next"

\* The handler a path (its segments) and a method are routed to; HEAD is
\* answered by the GET handler, and app.notFound answers what no route
\* matches.
Route(path, method) ==
    IF path = <<"health">> /\ method \in {"GET", "HEAD"} THEN "health"
    ELSE IF Len(path) = 2 /\ path[1] = "environments" /\ method \in {"GET", "HEAD"}
    THEN "getEnvironment"
    ELSE IF Len(path) = 2 /\ path[1] = "environments" /\ method = "PUT"
    THEN "putEnvironment"
    ELSE "notFound"

\* One request through the app: the middleware added with app.use, which
\* skips authMiddleware for /health, then the route. The build has one of
\* the two authMiddleware texts. PUT /environments/:name calls
\* getOrCreateEnvironment; the other handlers here write nothing.
Request(build, path, method, header, PACT_BROKER_TOKEN, ALLOW_PUBLIC_READ) ==
    LET auth == IF path = <<"health">> THEN "next"
                ELSE IF build = "part_002"
                THEN authMiddlewareCompare(method, header, PACT_BROKER_TOKEN,
                                           ALLOW_PUBLIC_READ)
                ELSE authMiddleware(method, header, PACT_BROKER_TOKEN, ALLOW_PUBLIC_READ)
        handler == IF auth = "next" THEN Route(path, method) ELSE NULL
    IN
    /\ environments' = IF handler = "putEnvironment"
                       THEN getOrCreateEnvironment(environments, path[2],
                                                   Undefined, Undefined)
                       ELSE environments
    /\ ret' = [op |-> "request",
               args |-> [build |-> build, path |-> path, method |-> method,
                         header |-> header, token |-> PACT_BROKER_TOKEN,
                         allowPublicRead |-> ALLOW_PUBLIC_READ],
               auth |-> auth, handler |-> handler]
    /\ UNCHANGED <<pacticipants, versions, tags, pacts, verifications,
                   deployedVersions, now, instance>>

Headers ==
    {NoHeader}
    \cup {[scheme |-> scheme, words |-> words] :
             scheme \in {"Bearer", "Basic"},
             words \in {<<>>, <<Secret>>, <<ShortSecret>>, <<WrongSecret>>,
                        <<<<>>, Secret>>, <<Secret, ShortSecret>>}}

\* Requests for /health and for the environments, under each configuration
\* of the two variables.
AnyRequest ==
    /\ ret = Idle
    /\ \E build \in {"part_002", "part_003"},
          path \in {<<"health">>} \cup {<<"environments", e>> : e \in EnvNames},
          method \in {"GET", "HEAD", "PUT"}, header \in Headers,
          token \in {<<>>, ShortSecret, Secret},
          allowPublicRead \in {"true", "false"} :
          Request(build, path, method, header, token, allowPublicRead)

NextAuth == AnyRequest \/ Return

SpecAuth == Init /\ [][NextAuth]_vars

\* C25: a request for a path other than /health reaches a handler only if
\* its Authorization header is Bearer followed by PACT_BROKER_TOKEN, or
\* ALLOW_PUBLIC_READ is "true" and the method is GET or HEAD; a request that
\* reaches no handler leaves the store as it is; GET /health reaches its
\* handler whatever the header.
C25_AdmittedOnlyAuthorized ==
    [][(ret = Idle /\ ret'.op = "request") =>
          LET a == ret'.args
              bearer == /\ a.header.scheme = "Bearer"
                        /\ Len(a.header.words) >= 1
                        /\ a.header.words[1] = a.token
              publicRead == a.allowPublicRead = "true" /\ a.method \in {"GET", "HEAD"}
          IN /\ (a.path # <<"health">> /\ ret'.handler # NULL) => (bearer \/ publicRead)
             /\ ret'.handler = NULL => UNCHANGED tables
             /\ (a.path = <<"health">> /\ a.method = "GET") => ret'.handler = "health"]_vars

\* A PUT with a Bearer token that is not the configured one has been
\* rejected, after an authorized PUT had stored an environment.
C25_Witness ==
    /\ ret.op = "request"
    /\ ret.args.method = "PUT"
    /\ ret.args.header = [scheme |-> "Bearer", words |-> <<WrongSecret>>]
    /\ ret.args.token = Secret
    /\ ret.handler = NULL
    /\ environments # <<>>

\* ------------------------------------------------- operations in flight
\* The operations are async methods: a call runs until an await, and another
\* call in flight may run in between. A call in flight is a frame: the call,
\* the segment it runs next (pc, 0 when it has returned), the pact read by
\* getPactByContentSha, and whether an INSERT failed on a unique index.
\* Segments are functions of the store, so that the calls can also be run one
\* after the other. Row ids held across an await are read again by key here:
\* no operation deletes a row or changes a key column.
Store ==
    [pacticipants |-> pacticipants, versions |-> versions, tags |-> tags,
     pacts |-> pacts, verifications |-> verifications,
     environments |-> environments, deployedVersions |-> deployedVersions]

NoCall ==
    [op |-> NULL, name |-> NULL, version |-> NULL, provider |-> NULL,
     content |-> [interactions |-> 0], branch |-> NULL, success |-> FALSE,
     tag |-> NULL, environment |-> NULL, displayName |-> Undefined]

Frame(call) == [call |-> call, pc |-> 1, pact |-> NoId, threw |-> FALSE]

Returned(f) == [f EXCEPT !.pc = 0]

\* publishPact: await getOrCreateVersion (which awaits getOrCreatePacticipant),
\* await getOrCreatePacticipant, await sha256, then the lookup and the write.
PublishSegment(s, f) ==
    LET c == f.call
        vid == VersionByNumber(s.versions, PacticipantByName(s.pacticipants, c.name),
                               c.version)
        pid == PacticipantByName(s.pacticipants, c.provider)
        contentStr == JSONstringify(c.content)
        contentSha == sha256(contentStr)
        outcome == PublishOutcome(s.pacts, vid, pid, contentSha)
        existing == PactByKey(s.pacts, vid, pid)
    IN
    CASE f.pc = 1 ->
           [store |-> [s EXCEPT !.pacticipants = getOrCreatePacticipant(@, c.name)],
            frame |-> [f EXCEPT !.pc = 2]]
      [] f.pc = 2 ->
           [store |-> [s EXCEPT !.versions =
                          getOrCreateVersion(s.pacticipants, @, c.name, c.version, c.branch)],
            frame |-> [f EXCEPT !.pc = 3]]
      [] f.pc = 3 ->
           [store |-> [s EXCEPT !.pacticipants = getOrCreatePacticipant(@, c.provider)],
            frame |-> [f EXCEPT !.pc = 4]]
      [] f.pc = 4 ->
           IF outcome = "created" /\ existing # NoId
           THEN [store |-> s, frame |-> [Returned(f) EXCEPT !.threw = TRUE]]
           ELSE [store |->
                    [s EXCEPT !.pacts =
                        CASE outcome = "updated" ->
                               [@ EXCEPT ![existing] = UpdatePact(@, contentStr, contentSha)]
                          [] outcome = "unchanged" -> @
                          [] outcome = "created" ->
                               Append(@, [id |-> Len(@) + 1, consumerVersionId |-> vid,
                                          providerId |-> pid, content |-> contentStr,
                                          contentSha |-> contentSha, createdAt |-> now])],
                 frame |-> Returned(f)]

\* publishVerification: await getPactByContentSha, await getOrCreateVersion
\* (which awaits getOrCreatePacticipant), then the INSERT with the id of the
\* pact read first.
VerifySegment(s, f) ==
    LET c == f.call
        found == {i \in DOMAIN s.pacts :
                     s.pacts[i].contentSha = sha256(JSONstringify(c.content))}
        pvid == VersionByNumber(s.versions, PacticipantByName(s.pacticipants, c.name),
                                c.version)
    IN
    CASE f.pc = 1 ->
           [store |-> s,
            frame |-> IF found = {} THEN Returned(f)
                      ELSE [f EXCEPT !.pc = 2, !.pact = CHOOSE i \in found : TRUE]]
      [] f.pc = 2 ->
           [store |-> [s EXCEPT !.pacticipants = getOrCreatePacticipant(@, c.name)],
            frame |-> [f EXCEPT !.pc = 3]]
      [] f.pc = 3 ->
           [store |-> [s EXCEPT !.versions =
                          getOrCreateVersion(s.pacticipants, @, c.name, c.version, NULL)],
            frame |-> [f EXCEPT !.pc = 4]]
      [] f.pc = 4 ->
           [store |-> [s EXCEPT !.verifications =
                          InsertVerification(@, [id |-> Len(@) + 1, pactId |-> f.pact,
                                                 providerVersionId |-> pvid,
                                                 success |-> c.success, buildUrl |-> NULL,
                                                 verifiedAt |-> now])],
            frame |-> Returned(f)]

\* addTag and recordDeployment: await getVersion (which awaits
\* getPacticipant); recordDeployment then awaits getOrCreateEnvironment; the
\* lookup and the INSERT follow without an await between them.
VersionSegment(s, f) ==
    LET c == f.call
        pid == PacticipantByName(s.pacticipants, c.name)
        vid == VersionByNumber(s.versions, pid, c.version)
        tagged == {i \in DOMAIN s.tags :
                      s.tags[i].versionId = vid /\ s.tags[i].name = c.tag}
        eid == EnvironmentByName(s.environments, c.environment)
        outcome == DeployOutcome(s.deployedVersions, vid, eid)
    IN
    CASE f.pc = 1 ->
           [store |-> s, frame |-> IF pid = NoId THEN Returned(f) ELSE [f EXCEPT !.pc = 2]]
      [] f.pc = 2 ->
           [store |-> s, frame |-> IF vid = NoId THEN Returned(f) ELSE [f EXCEPT !.pc = 3]]
      [] f.pc = 3 /\ c.op = "addTag" ->
           [store |-> [s EXCEPT !.tags =
                          IF tagged # {} THEN @
                          ELSE Append(@, [id |-> Len(@) + 1, versionId |-> vid,
                                          name |-> c.tag, createdAt |-> now])],
            frame |-> Returned(f)]
      [] f.pc = 3 /\ c.op = "recordDeployment" ->
           [store |-> [s EXCEPT !.environments =
                          getOrCreateEnvironment(@, c.environment, Undefined, Undefined)],
            frame |-> [f EXCEPT !.pc = 4]]
      [] f.pc = 4 ->
           [store |-> [s EXCEPT !.deployedVersions =
                          IF outcome = "inserted"
                          THEN Append(@, [id |-> Len(@) + 1, versionId |-> vid,
                                          environmentId |-> eid, deployedAt |-> now,
                                          undeployedAt |-> NoTime])
                          ELSE @],
            frame |-> [Returned(f) EXCEPT !.threw = (outcome = "threw")]]

\* getOrCreateEnvironment has no await.
EnvironmentSegment(s, f) ==
    [store |-> [s EXCEPT !.environments =
                   getOrCreateEnvironment(@, f.call.environment, f.call.displayName,
                                          Undefined)],
     frame |-> Returned(f)]

\* The next segment of a frame: the store and the frame afterwards.
Segment(s, f) ==
    CASE f.call.op = "publishPact" -> PublishSegment(s, f)
      [] f.call.op = "publishVerification" -> VerifySegment(s, f)
      [] f.call.op \in {"addTag", "recordDeployment"} -> VersionSegment(s, f)
      [] f.call.op = "getOrCreateEnvironment" -> EnvironmentSegment(s, f)

\* A call run to its return without another call in between.
RECURSIVE RunToReturn(_, _)
RunToReturn(s, f) ==
    IF f.pc = 0 THEN [store |-> s, frame |-> f]
    ELSE RunToReturn(Segment(s, f).store, Segment(s, f).frame)

\* The store after the calls have run one after the other.
RECURSIVE Serial(_, _)
Serial(s, calls) ==
    IF calls = <<>> THEN s
    ELSE Serial(RunToReturn(s, Frame(Head(calls))).store, Tail(calls))

\* Two calls are made while none is in flight; start is the store they find.
InFlight(calls) ==
    /\ ret' = [op |-> "inflight", start |-> Store,
               frames |-> [k \in DOMAIN calls |-> Frame(calls[k])]]
    /\ UNCHANGED <<tables, now, instance>>

\* The call in flight numbered k runs its next segment.
Resume(k) ==
    LET after == Segment(Store, ret.frames[k]) IN
    /\ ret.frames[k].pc # 0
    /\ pacticipants' = after.store.pacticipants
    /\ versions' = after.store.versions
    /\ tags' = after.store.tags
    /\ pacts' = after.store.pacts
    /\ verifications' = after.store.verifications
    /\ environments' = after.store.environments
    /\ deployedVersions' = after.store.deployedVersions
    /\ ret' = [ret EXCEPT !.frames[k] = after.frame]
    /\ UNCHANGED <<now, instance>>

AllReturned == ret.op = "inflight" /\ \A k \in DOMAIN ret.frames : ret.frames[k].pc = 0

\* ----------------------------------------------------- concurrent runs
\* Pairs of calls on the same and on different keys. Only "web" publishes
\* the content that is verified, so the pact a verification finds is one.
Calls ==
    {[NoCall EXCEPT !.op = "publishPact", !.name = "web", !.version = "1",
                    !.provider = "api", !.branch = "main"],
     [NoCall EXCEPT !.op = "publishPact", !.name = "web", !.version = "1",
                    !.provider = "api", !.content = [interactions |-> 1]],
     [NoCall EXCEPT !.op = "publishPact", !.name = "app", !.version = "1",
                    !.provider = "api", !.content = [interactions |-> 1]],
     [NoCall EXCEPT !.op = "publishVerification", !.name = "api", !.version = "1",
                    !.success = TRUE],
     [NoCall EXCEPT !.op = "addTag", !.name = "web", !.version = "1", !.tag = "prod"],
     [NoCall EXCEPT !.op = "recordDeployment", !.name = "web", !.version = "1",
                    !.environment = "prod"],
     [NoCall EXCEPT !.op = "getOrCreateEnvironment", !.environment = "prod",
                    !.displayName = "Production"]}

CallTogether ==
    /\ ret = Idle
    /\ \E first \in Calls, second \in Calls :
          /\ Len(verifications) + Cardinality({c \in {first, second} :
                                                  c.op = "publishVerification"})
                + (IF first = second /\ first.op = "publishVerification" THEN 1 ELSE 0)
                <= MaxVerifications
          /\ InFlight(<<first, second>>)

ResumeAny ==
    /\ ret.op = "inflight"
    /\ \E k \in DOMAIN ret.frames : Resume(k)

Settle == AllReturned /\ Return

NextConcurrent == CallTogether \/ ResumeAny \/ Settle

SpecConcurrent == Init /\ [][NextConcurrent]_vars

\* ------------------------------------------------ claims on calls in flight
\* The rows of a store with every row id replaced by the key of the row it
\* names, and the number of rows of each table.
VersionKey(s, vid) ==
    <<s.pacticipants[s.versions[vid].pacticipantId].name, s.versions[vid].number>>

PactKey(s, i) ==
    <<VersionKey(s, s.pacts[i].consumerVersionId),
      s.pacticipants[s.pacts[i].providerId].name>>

RowsByKey(s) ==
    [pacticipants |-> {<<s.pacticipants[i].name, s.pacticipants[i].mainBranch>> :
                          i \in DOMAIN s.pacticipants},
     versions |-> {<<VersionKey(s, i), s.versions[i].branch, s.versions[i].buildUrl>> :
                      i \in DOMAIN s.versions},
     tags |-> {<<VersionKey(s, s.tags[i].versionId), s.tags[i].name>> :
                  i \in DOMAIN s.tags},
     pacts |-> {<<PactKey(s, i), s.pacts[i].content, s.pacts[i].contentSha>> :
                   i \in DOMAIN s.pacts},
     verifications |-> {<<PactKey(s, s.verifications[i].pactId),
                          VersionKey(s, s.verifications[i].providerVersionId),
                          s.verifications[i].success>> : i \in DOMAIN s.verifications},
     environments |-> {<<s.environments[i].name, s.environments[i].displayName,
                         s.environments[i].production>> : i \in DOMAIN s.environments},
     deployedVersions |-> {<<VersionKey(s, s.deployedVersions[i].versionId),
                             s.environments[s.deployedVersions[i].environmentId].name,
                             s.deployedVersions[i].undeployedAt>> :
                              i \in DOMAIN s.deployedVersions},
     rows |-> <<Len(s.pacticipants), Len(s.versions), Len(s.tags), Len(s.pacts),
                Len(s.verifications), Len(s.environments), Len(s.deployedVersions)>>]

\* No two rows of a table have the same key.
NoDuplicateRows ==
    /\ \A i, j \in DOMAIN pacticipants :
          pacticipants[i].name = pacticipants[j].name => i = j
    /\ \A i, j \in DOMAIN versions :
          (/\ versions[i].pacticipantId = versions[j].pacticipantId
           /\ versions[i].number = versions[j].number) => i = j
    /\ \A i, j \in DOMAIN tags :
          (tags[i].versionId = tags[j].versionId /\ tags[i].name = tags[j].name) => i = j
    /\ \A i, j \in DOMAIN pacts :
          (/\ pacts[i].consumerVersionId = pacts[j].consumerVersionId
           /\ pacts[i].providerId = pacts[j].providerId) => i = j
    /\ \A i, j \in DOMAIN environments :
          environments[i].name = environments[j].name => i = j

\* The two orders in which the calls in flight can run one after the other.
SerialOrders == Orderings(DOMAIN ret.frames)

CallsIn(order) == [k \in DOMAIN order |-> ret.frames[order[k]].call]

\* C26: whatever the interleaving at the awaits, no call in flight fails on
\* a unique index and no table holds two rows with the same key (this part
\* holds: no await separates a lookup from the INSERT that follows it).
C26_NoDuplicateRows ==
    ret.op = "inflight" =>
        /\ \A k \in DOMAIN ret.frames : ~ret.frames[k].threw
        /\ NoDuplicateRows

\* C26: once the calls in flight have returned, the store is the store that
\* some serial order of the calls leaves. The rows are compared by their
\* keys, so that the order in which row ids were handed out plays no part.
C26_SerialOrder ==
    AllReturned =>
        \E order \in SerialOrders :
            RowsByKey(Store) = RowsByKey(Serial(ret.start, CallsIn(order)))

\* ------------------------------------------------------------ instance runs
\* The instance is started by the first request for it, stopped when idle
\* and started again; its storage (schema and rows) outlives it. Requests
\* that have arrived are served when the gate is open.
InitStopped ==
    /\ instance = [phase |-> "stopped", schema |-> {}, starts |-> 0, migrated |-> 0]
    /\ pacticipants = <<>>
    /\ versions = <<>>
    /\ tags = <<>>
    /\ pacts = <<>>
    /\ verifications = <<>>
    /\ environments = <<>>
    /\ deployedVersions = <<>>
    /\ now = 0
    /\ ret = Idle

\* A request arrives for the stopped instance: the constructor runs up to
\* blockConcurrencyWhile, which holds the request back.
Start ==
    /\ instance.phase = "stopped"
    /\ instance.starts < MaxStarts
    /\ instance' = [instance EXCEPT !.phase = "constructing", !.starts = @ + 1,
                                    !.migrated = 0]
    /\ UNCHANGED <<tables, now, ret>>

\* The callback given to blockConcurrencyWhile: runMigrations(ctx.storage.sql),
\* after which events are delivered.
Construct ==
    /\ instance.phase = "constructing"
    /\ instance' = [instance EXCEPT !.phase = "ready", !.migrated = @ + 1,
                                    !.schema = runMigrations(@, 1)]
    /\ UNCHANGED <<tables, now, ret>>

\* The idle instance is removed from memory.
Stop ==
    /\ instance.phase = "ready"
    /\ ret = Idle
    /\ instance' = [instance EXCEPT !.phase = "stopped"]
    /\ UNCHANGED <<tables, now, ret>>

\* Mutant of GateOpen: the constructor does not block; an operation can run
\* as soon as the instance is constructed.
GateOpen_NoBlock == instance.phase # "stopped"

\* Whether a request is delivered to the instance: not while the callback
\* of blockConcurrencyWhile is pending.
GateOpen == instance.phase = "ready"

PublishForStart ==
    /\ GateOpen
    /\ ret = Idle
    /\ \E v \in Numbers, p \in {"api", "db"} :
          publishPact("web", v, p, ContentFor(p), NULL)

DeployForStart ==
    /\ GateOpen
    /\ ret = Idle
    /\ \E v \in Numbers : recordDeployment("web", v, "prod")

NextStart == Start \/ Construct \/ Stop \/ PublishForStart \/ DeployForStart \/ Return

SpecStart == InitStopped /\ [][NextStart]_vars

\* C27: a broker operation runs (the store changes or a result is produced)
\* only when runMigrations has completed since the instance was started and
\* every object of the schema exists; requests are held back until then;
\* runMigrations runs once per start.
C27_MigratedBeforeOperations ==
    [][/\ (tables' # tables \/ (ret' # ret /\ ret' # Idle)) =>
             /\ instance.phase = "ready"
             /\ instance.migrated = 1
             /\ instance.schema = Schema
       /\ instance'.migrated # instance.migrated =>
             \/ instance.phase = "stopped" /\ instance'.migrated = 0
             \/ instance.phase = "constructing" /\ instance.migrated = 0
                /\ instance'.migrated = 1]_vars

\* publishPact has run on the instance started for the second time.
C27_Witness ==
    /\ ret.op = "publishPact"
    /\ instance.starts = 2
    /\ instance.schema = Schema

\* --------------------------------------------------------- request bodies
\* A request body: text that c.req.json() cannot parse, the JSON value null,
\* or a JSON object with some of the fields the routes look at. interactions
\* is NoInteractions when the object has no such key.
NoInteractions == -1

PactBodies ==
    {[kind |-> kind, consumer |-> consumer, provider |-> provider,
      interactions |-> interactions] :
        kind \in {"text", "null", "object"}, consumer \in {Undefined, "web"},
        provider \in {Undefined, "api"}, interactions \in {NoInteractions, 0, 1}}

\* success: a boolean ("true", "false"), a string, or left out.
VerificationBodies ==
    {[kind |-> kind, success |-> success, providerApplicationVersion |-> version] :
        kind \in {"text", "null", "object"},
        success \in {Undefined, "true", "false", "'true'"},
        version \in {Undefined, "1"}}

\* The status with which the publish route answers before it calls the
\* broker, "next" when it goes on to publishPact. Reading a property of null
\* throws; the error handler of the app answers 500.
PactBodyStatus(body) ==
    IF body.kind = "text" THEN "400"
    ELSE IF body.kind = "null" THEN "500"
    ELSE IF \/ body.consumer = Undefined
            \/ body.provider = Undefined
            \/ body.interactions = NoInteractions
    THEN "400"
    ELSE "next"

\* The same for the verification-results routes.
VerificationBodyStatus(body) ==
    IF body.kind = "text" THEN "400"
    ELSE IF body.kind = "null" THEN "500"
    ELSE IF body.success \notin {"true", "false"} THEN "400"
    ELSE IF body.providerApplicationVersion = Undefined THEN "400"
    ELSE "next"

\* PUT /pacts/provider/:provider/consumer/:consumer/version/:version
PutPact(providerName, consumerName, consumerVersion, body) ==
    IF PactBodyStatus(body) # "next"
    THEN /\ ret' = [op |-> "putPact", args |-> [body |-> body],
                    status |-> PactBodyStatus(body)]
         /\ UNCHANGED <<tables, now, instance>>
    ELSE publishPact(consumerName, consumerVersion, providerName, body, NULL)

\* POST .../pact-version/:sha/verification-results
PostVerification(providerName, consumerName, pactSha, body) ==
    IF VerificationBodyStatus(body) # "next"
    THEN /\ ret' = [op |-> "postVerification", args |-> [body |-> body],
                    status |-> VerificationBodyStatus(body)]
         /\ UNCHANGED <<tables, now, instance>>
    ELSE publishVerification(providerName, consumerName, pactSha,
                             body.providerApplicationVersion, body.success = "true", NULL)

\* ------------------------------------------------------- validation runs
PutAnyPact ==
    /\ ret = Idle
    /\ \E v \in Numbers, body \in PactBodies : PutPact("api", "web", v, body)

PostAnyVerification ==
    /\ ret = Idle
    /\ \E body \in VerificationBodies, content \in {0, 1} :
          PostVerification("api", "web",
                           sha256(JSONstringify([interactions |-> content])), body)

NextValidate == PutAnyPact \/ PostAnyVerification \/ Return

SpecValidate == Init /\ [][NextValidate]_vars

\* C28: a publish request whose body is not valid JSON or lacks consumer,
\* provider or interactions, and a verification request whose success is not
\* a boolean or whose providerApplicationVersion is missing, is answered 400
\* and writes nothing; the broker is called with complete bodies only.
C28_InvalidBodyIs400 ==
    [][ret = Idle =>
          /\ ret'.op \in {"putPact", "postVerification"} =>
                ret'.status = "400" /\ UNCHANGED tables
          /\ ret'.op = "publishPact" =>
                /\ ret'.args.content.kind = "object"
                /\ ret'.args.content.consumer # Undefined
                /\ ret'.args.content.provider # Undefined
                /\ ret'.args.content.interactions # NoInteractions
          /\ ret'.op = "publishVerification" => ret'.args.version # Undefined]_vars

\* The part of C28 that holds: a request with such a body writes nothing.
C28_InvalidBodyWritesNothing ==
    [][(ret = Idle /\ ret'.op \in {"putPact", "postVerification"}) =>
          UNCHANGED tables]_vars

\* ----------------------------------------------------------- republish runs
\* One consumer publishes two versions to one provider, with either content,
\* also again under the same key; the provider verifies the first content
\* only; can-i-deploy is asked for the consumer versions. The whole run falls
\* within one second, as in the can-i-deploy runs.
VerifiedSha == sha256(JSONstringify([interactions |-> 0]))

PublishForRepublish ==
    /\ ret = Idle
    /\ \E v \in Numbers, content \in Contents : publishPact("web", v, "api", content, NULL)

VerifyForRepublish ==
    /\ ret = Idle
    /\ \E success \in BOOLEAN :
          publishVerification("api", "web", VerifiedSha, "1", success, NULL)

CanIDeployRepublish ==
    /\ ret = Idle
    /\ \E v \in Numbers : canIDeploy("web", v, NULL)

NextRepublish == PublishForRepublish \/ VerifyForRepublish \/ CanIDeployRepublish \/ Return

SpecRepublish == Init /\ [][NextRepublish]_vars

\* C29: when canIDeploy answers deployable with a non-empty matrix, the
\* verification of every row was recorded against the content hash the row
\* reports. In these runs every verification is recorded against VerifiedSha,
\* so every row of such an answer reports VerifiedSha.
C29_VerifiedContentIsReported ==
    (/\ ret.op = "canIDeploy"
     /\ ret.result.deployable
     /\ Len(ret.result.matrix) > 0) =>
        \A k \in DOMAIN ret.result.matrix :
            ret.result.matrix[k].pactVersion.sha = VerifiedSha

\* C30: after publishVerification has recorded a result for hash S by
\* provider P, every stored pact of P whose contentSha is S has a
\* verification, so that its matrix row has a verificationResult.
C30_EveryPactOfHashVerified ==
    (ret.op = "publishVerification" /\ ret.result # <<>>) =>
        \A i \in DOMAIN pacts :
            (/\ pacts[i].contentSha = ret.args.sha
             /\ pacticipants[pacts[i].providerId].name = ret.args.provider) =>
                MatrixVerification(i, NULL) # {NoId}

\* C31: in every reachable state, the provider version of each stored
\* verification is a version of the participant that is the provider of the
\* verified pact. In the version runs "api" is asked to verify a content hash
\* that also (or only) a pact it published to "db" carries.
C31_VerificationByPactProvider ==
    \A i \in DOMAIN verifications :
        versions[verifications[i].providerVersionId].pacticipantId
            = pacts[verifications[i].pactId].providerId

\* C32: every pact returned by getPactsForVerification can be fetched through
\* its link: getPactByContentShaFull with the provider asked for, the name of
\* the pact's consumer and the pact's contentSha returns a pact of that
\* consumer with the same content, whichever row the query takes first.
C32_LinkFetchesPact ==
    ret.op = "getPactsForVerification" =>
        \A e \in DOMAIN ret.result :
            \A got \in getPactByContentShaFull(
                           ret.args.provider,
                           PactConsumer(ret.result[e].pact).name,
                           pacts[ret.result[e].pact].contentSha) :
                /\ got # NoId
                /\ PactConsumer(got) = PactConsumer(ret.result[e].pact)
                /\ pacts[got].content = pacts[ret.result[e].pact].content

\* ---------------------------------------------------- single-selector runs
\* Two consumers publish to one provider, with or without a branch, and
\* their versions are tagged; the provider asks for the pacts to verify with
\* one selector: none of the keys, an environment without deployed, latest,
\* each filter alone, and filters together. The clock stands still: every
\* version of a consumer is then among its newest, so the candidates are any
\* one pact of each consumer.
SingleSelectors ==
    {NoSelector,
     [NoSelector EXCEPT !.environment = "prod"],
     [NoSelector EXCEPT !.latest = TRUE],
     [NoSelector EXCEPT !.consumer = "web"],
     [NoSelector EXCEPT !.tag = "prod"],
     [NoSelector EXCEPT !.branch = "main"],
     [NoSelector EXCEPT !.mainBranch = TRUE],
     [NoSelector EXCEPT !.consumer = "web", !.tag = "prod"],
     [NoSelector EXCEPT !.tag = "prod", !.branch = "main"],
     [NoSelector EXCEPT !.consumer = "web", !.mainBranch = TRUE, !.latest = TRUE]}

PublishForSingle ==
    /\ ret = Idle
    /\ \E c \in {"web", "app"}, v \in Numbers, b \in Branches :
          publishPact(c, v, "api", ContentFor("api"), b)

TagForSingle ==
    /\ ret = Idle
    /\ \E c \in {"web", "app"}, v \in Numbers, t \in TagNames : addTag(c, v, t)

PactsForSingle ==
    /\ ret = Idle
    /\ \E selector \in SingleSelectors : getPactsForVerification("api", <<selector>>)

NextSingle == PublishForSingle \/ TagForSingle \/ PactsForSingle \/ Return

SpecSingle == Init /\ [][NextSingle]_vars

\* C33: for one selector without the deployed key, the pacts returned are the
\* candidates (the latest pact of each consumer of the provider) that satisfy
\* every predicate the selector has: the consumer's name, a tag on the
\* consumer version, the version's branch, the version's branch being the
\* consumer's main branch; latest filters nothing; a selector with none of
\* the keys, or with an environment only, returns every candidate, each with
\* the one notice "it matches the consumer version selectors".
C33_ConjunctionOfPredicates ==
    (/\ ret.op = "getPactsForVerification"
     /\ Len(ret.args.selectors) = 1
     /\ ~ret.args.selectors[1].deployed
     /\ getPacticipant(ret.args.provider) # NoId) =>
    \E results \in getLatestPactsForProvider(ret.args.provider) :
       LET s == ret.args.selectors[1]
           candidates == {results[e] : e \in DOMAIN results}
           version(p) == versions[pacts[p].consumerVersionId]
           consumer(p) == pacticipants[version(p).pacticipantId]
           Satisfies(p) ==
               /\ s.consumer # NULL => consumer(p).name = s.consumer
               /\ s.tag # NULL =>
                     \E t \in DOMAIN tags : /\ tags[t].versionId = pacts[p].consumerVersionId
                                            /\ tags[t].name = s.tag
               /\ s.branch # NULL => version(p).branch = s.branch
               /\ s.mainBranch => version(p).branch = consumer(p).mainBranch
           nothingAsked == /\ s.consumer = NULL /\ s.tag = NULL /\ s.branch = NULL
                           /\ ~s.mainBranch /\ ~s.latest
       IN /\ {ret.result[e].pact : e \in DOMAIN ret.result}
                = {p \in candidates : Satisfies(p)}
          /\ Len(ret.result) = Cardinality({p \in candidates : Satisfies(p)})
          /\ nothingAsked =>
                /\ Len(ret.result) = Len(results)
                /\ \A e \in DOMAIN ret.result :
                      ret.result[e].notices
                          = <<<<"it matches the consumer version selectors">>>>

\* The selector asks for consumer "web" and tag "prod"; "app" has a pact of
\* a version tagged "prod" and so has "web": only the pact of "web" is
\* returned.
C33_Witness ==
    /\ ret.op = "getPactsForVerification"
    /\ ret.args.selectors = <<[NoSelector EXCEPT !.consumer = "web", !.tag = "prod"]>>
    /\ Len(ret.result) = 1
    /\ PactConsumer(ret.result[1].pact).name = "web"
    /\ \E p \in DOMAIN pacts :
          /\ PactConsumer(p).name = "app"
          /\ "prod" \in getTagsForVersion("app", PactVersion(p).number)

\* ------------------------------------------------------ deployed-pact runs
\* The deployment runs, with the provider asking for the pacts of deployed
\* consumer versions, in one environment or in any. The clock stands still:
\* a row is active by undeployed_at being NULL, whatever the time.
DeployedSelectors ==
    {[NoSelector EXCEPT !.deployed = TRUE, !.environment = e] : e \in EnvNames \cup {NULL}}

PactsForDeployed ==
    /\ ret = Idle
    /\ \E selector \in DeployedSelectors : getPactsForVerification("api", <<selector>>)

NextDeployed ==
    PublishForDeploy \/ RecordDeployment \/ RecordUndeployment \/ QueryDeployed
    \/ PactsForDeployed \/ Return

SpecDeployed == Init /\ [][NextDeployed]_vars

\* The rows of deployed_versions of a version that are not undeployed, in the
\* environment named or, with NULL, in any.
ActiveRows(vid, environmentName) ==
    {i \in DOMAIN deployedVersions :
        /\ deployedVersions[i].versionId = vid
        /\ deployedVersions[i].undeployedAt = NoTime
        /\ environmentName # NULL =>
              environments[deployedVersions[i].environmentId].name = environmentName}

\* Whether a selector keeps a pact that is among the candidates.
Selects(selector, pact) == SelectPacts(<<selector>>, <<pact>>) # <<>>

PublishForLatest ==
    /\ ret = Idle
    /\ \/ \E v \in Numbers, content \in Contents : publishPact("web", v, "api", content, NULL)
       \/ \E v \in Numbers : publishPact("web", v, "db", ContentFor("db"), NULL)
       \/ publishPact("app", "1", "api", ContentFor("api"), NULL)

TagForLatest ==
    /\ ret = Idle
    /\ \E v \in Numbers, t \in TagNames : addTag("web", v, t)

QueryLatestPact ==
    /\ ret = Idle
    /\ \E p \in {"api", "ghost"}, c \in {"web", "ghost"}, t \in TagNames \cup {NULL} :
          GetLatestPact(p, c, t)

QueryLatestPacts ==
    /\ ret = Idle
    /\ \E p \in {"api", "ghost"} : GetLatestPactsForProvider(p)

TickLatest == ret = Idle /\ Tick

NextLatest ==
    TickLatest \/ PublishForLatest \/ TagForLatest \/ QueryLatestPact
    \/ QueryLatestPacts \/ Return

SpecLatest == Init /\ [][NextLatest]_vars

\* The stored versions of a consumer that have a pact with a provider.
VersionsWithPact(providerName, consumerName) ==
    {v \in DOMAIN versions :
        /\ pacticipants[versions[v].pacticipantId].name = consumerName
        /\ \E p \in DOMAIN pacts : /\ pacts[p].consumerVersionId = v
                                   /\ pacticipants[pacts[p].providerId].name = providerName}

\* C35: getLatestPact without a tag returns the pact with the provider of a
\* version of the consumer that has such a pact and whose createdAt no other
\* such version exceeds, whenever the pacts were published or republished;
\* it returns null exactly when no version of the consumer has a pact with
\* the provider, which is so when either name is not stored.
C35_LatestByVersionCreation ==
    (ret.op = "getLatestPact" /\ ret.args.tag = NULL) =>
        LET withPact == VersionsWithPact(ret.args.provider, ret.args.consumer) IN
        IF withPact = {} THEN ret.result = NoId
        ELSE /\ ret.result \in DOMAIN pacts
             /\ pacts[ret.result].consumerVersionId \in withPact
             /\ pacticipants[pacts[ret.result].providerId].name = ret.args.provider
             /\ \A v \in withPact :
                   versions[v].createdAt
                       <= versions[pacts[ret.result].consumerVersionId].createdAt

\* The consumer's newest version has no pact with the provider, and the pact
\* of its older version is returned.
C35_Witness ==
    /\ ret.op = "getLatestPact"
    /\ ret.args.tag = NULL
    /\ ret.result # NoId
    /\ \E v \in DOMAIN versions :
          /\ versions[v].pacticipantId = versions[pacts[ret.result].consumerVersionId].pacticipantId
          /\ versions[v].createdAt > versions[pacts[ret.result].consumerVersionId].createdAt
          /\ v \notin VersionsWithPact(ret.args.provider, ret.args.consumer)

\* C36: getLatestPact with a tag returns the pact with the provider of the
\* version getLatestVersionByTag resolves for the consumer and the tag, and
\* null when nothing resolves or the resolved version has no pact with the
\* provider, whatever pacts older versions with the tag have.
C36_PactOfResolvedVersion ==
    (ret.op = "getLatestPact" /\ ret.args.tag # NULL) =>
        IF \/ getPacticipant(ret.args.provider) = NoId
           \/ getLatestVersionByTag(ret.args.consumer, ret.args.tag) = {}
        THEN ret.result = NoId
        ELSE \E resolved \in getLatestVersionByTag(ret.args.consumer, ret.args.tag) :
                LET of == {p \in DOMAIN pacts :
                              /\ pacts[p].consumerVersionId = resolved
                              /\ pacticipants[pacts[p].providerId].name = ret.args.provider}
                IN IF of = {} THEN ret.result = NoId ELSE ret.result \in of

\* The newest version with the tag has no pact with the provider, an older
\* version with the tag has one, and null is returned.
C36_Witness ==
    /\ ret.op = "getLatestPact"
    /\ ret.args.tag # NULL
    /\ ret.result = NoId
    /\ \E v \in VersionsWithPact(ret.args.provider, ret.args.consumer) :
          /\ TagByKey(v, ret.args.tag) # NoId
          /\ \A w \in getLatestVersionByTag(ret.args.consumer, ret.args.tag) :
                versions[w].createdAt > versions[v].createdAt

\* The consumers that have a pact with a provider, by name.
ConsumersOf(providerName) ==
    {pacticipants[versions[pacts[p].consumerVersionId].pacticipantId].name :
        p \in {q \in DOMAIN pacts : pacticipants[pacts[q].providerId].name = providerName}}

\* C37: getLatestPactsForProvider returns one pact for each consumer that
\* has a pact with the provider and no other pact, the pact of a consumer
\* being one getLatestPact returns for it, and the empty sequence for a
\* provider that is not stored.
C37_OneLatestPactPerConsumer ==
    ret.op = "getLatestPactsForProvider" =>
        /\ Len(ret.result) = Cardinality(ConsumersOf(ret.args.provider))
        /\ \A c \in ConsumersOf(ret.args.provider) :
              \E e \in DOMAIN ret.result :
                  /\ PactConsumer(ret.result[e]).name = c
                  /\ ret.result[e] \in getLatestPact(ret.args.provider, c, NULL)
        /\ getPacticipant(ret.args.provider) = NoId => ret.result = <<>>

\* The provider has pacts of two versions of one consumer, created in
\* different seconds: one pact is returned, that of the newer version.
C37_Witness ==
    /\ ret.op = "getLatestPactsForProvider"
    /\ Len(ret.result) = 1
    /\ \E p \in DOMAIN pacts :
          /\ pacticipants[pacts[p].providerId].name = ret.args.provider
          /\ PactConsumer(p) = PactConsumer(ret.result[1])
          /\ PactVersion(p).createdAt < PactVersion(ret.result[1]).createdAt

\* ------------------------------------------------------------ matrix-row runs
\* The republish runs, with the matrix read for the consumer, with and
\* without a version, for the provider, and for a name that is never stored.
QueryRows ==
    /\ ret = Idle
    /\ \E p \in {"web", "api", "ghost"}, v \in Numbers \cup {NULL} : GetMatrix(p, v, NULL)

NextRows == PublishForRepublish \/ VerifyForRepublish \/ QueryRows \/ Return

SpecRows == Init /\ [][NextRows]_vars

\* The stored pacts whose consumer version is of the participant and, when a
\* version is given, has that number.
PactsConsumedBy(participant, number) ==
    {p \in DOMAIN pacts :
        /\ pacticipants[versions[pacts[p].consumerVersionId].pacticipantId].name = participant
        /\ number # NULL => versions[pacts[p].consumerVersionId].number = number}

\* C38: getMatrix returns one row for each stored pact whose consumer version
\* belongs to the participant (and has the number given, when one is given)
\* and no other row; the row names the pact's consumer, consumer version and
\* provider, carries the contentSha the pact has now, and has provider.version
\* null, verified or not. A participant that only provides, and a name that
\* is not stored, get the empty matrix.
C38_OneRowPerConsumedPact ==
    ret.op = "getMatrix" =>
        LET mine == PactsConsumedBy(ret.args.pacticipant, ret.args.version) IN
        /\ Len(ret.result) = Cardinality(mine)
        /\ \A p \in mine :
              \E k \in DOMAIN ret.result :
                  /\ ret.result[k].consumer.name = ret.args.pacticipant
                  /\ ret.result[k].consumer.version
                        = versions[pacts[p].consumerVersionId].number
                  /\ ret.result[k].provider.name = pacticipants[pacts[p].providerId].name
                  /\ ret.result[k].pactVersion.sha = pacts[p].contentSha
        /\ \A k \in DOMAIN ret.result : ret.result[k].provider.version = NULL

\* The participant has pacts of two versions; the matrix of one version has
\* one row, which reports a verification and the hash of content published
\* again after the verification.
C38_Witness ==
    /\ ret.op = "getMatrix"
    /\ ret.args.version # NULL
    /\ Len(ret.result) = 1
    /\ Cardinality(PactsConsumedBy(ret.args.pacticipant, NULL)) = 2
    /\ ret.result[1].verificationResult # <<>>
    /\ ret.result[1].pactVersion.sha # VerifiedSha

\* --------------------------------------------------------------- query runs
\* The store runs, with every query asked in between, for the names stored
\* and for a participant, a version, a tag, an environment and a content hash
\* that are never stored.
QueryMatrixOf ==
    /\ ret = Idle
    /\ \E p \in {"web", "ghost"}, v \in {"1", NULL}, t \in {"prod", NULL} : GetMatrix(p, v, t)

QueryCanIDeploy ==
    /\ ret = Idle
    /\ \E p \in {"web", "ghost"}, v \in {"1", "9"}, t \in {"prod", NULL} : canIDeploy(p, v, t)

QueryPactsForVerification ==
    /\ ret = Idle
    /\ \E p \in {"api", "ghost"},
          selector \in {[NoSelector EXCEPT !.tag = "prod"],
                        [NoSelector EXCEPT !.consumer = "ghost"],
                        [NoSelector EXCEPT !.deployed = TRUE, !.environment = "ghost"]} :
          getPactsForVerification(p, <<selector>>)

QueryLatest ==
    /\ ret = Idle
    /\ \E p \in {"api", "ghost"}, c \in {"web", "ghost"}, t \in {"prod", "ghost", NULL} :
          GetLatestPact(p, c, t)

QueryPact ==
    /\ ret = Idle
    /\ \E p \in {"api", "ghost"}, c \in {"web", "ghost"}, v \in {"1", "9"} : GetPact(p, c, v)

QueryPactBySha ==
    /\ ret = Idle
    /\ \E p \in {"api", "ghost"}, c \in {"web", "ghost"}, content \in Contents :
          GetPactByContentShaFull(p, c, sha256(JSONstringify(content)))

QueryVersion ==
    /\ ret = Idle
    /\ \E p \in {"web", "ghost"}, v \in {"1", "9"} : GetVersion(p, v)

QueryVersionByTag ==
    /\ ret = Idle
    /\ \E p \in {"web", "ghost"}, t \in {"prod", "ghost"} : GetLatestVersionByTag(p, t)

QueryIsDeployed ==
    /\ ret = Idle
    /\ \E p \in {"web", "ghost"}, v \in {"1", "9"}, e \in {"prod", "ghost", NULL} :
          IsVersionDeployed(p, v, e)

NextQuery ==
    PublishForStore \/ VerifyForStore \/ TagForStore \/ DeployForStore
    \/ UndeployForStore \/ QueryMatrixOf \/ QueryCanIDeploy \/ QueryPactsForVerification
    \/ QueryLatest \/ QueryPact \/ QueryPactBySha \/ QueryVersion \/ QueryVersionByTag
    \/ QueryIsDeployed \/ Return

SpecQuery == Init /\ [][NextQuery]_vars

\* The operations that only read.
Queries ==
    {"getMatrix", "canIDeploy", "getPactsForVerification", "getLatestPact", "getPact",
     "getPactByContentShaFull", "getVersion", "getLatestVersionByTag", "isVersionDeployed"}

\* C39: a call of a query leaves every table as it was, row for row, for
\* names that are stored and for names that are not: no participant, version,
\* tag, environment or other row comes to exist by asking.
C39_QueriesChangeNothing ==
    [][(ret = Idle /\ ret'.op \in Queries) =>
          /\ pacticipants' = pacticipants
          /\ versions' = versions
          /\ tags' = tags
          /\ pacts' = pacts
          /\ verifications' = verifications
          /\ environments' = environments
          /\ deployedVersions' = deployedVersions]_vars

\* Every table has a row, and isVersionDeployed has been asked about an
\* environment that is not stored, for a version that is.
C39_Witness ==
    /\ ret.op = "isVersionDeployed"
    /\ ret.args.environment # NULL
    /\ getEnvironment(ret.args.environment) = NoId
    /\ getVersion(ret.args.pacticipant, ret.args.version) # NoId
    /\ \A t \in {Len(pacticipants), Len(versions), Len(tags), Len(pacts),
                 Len(verifications), Len(environments), Len(deployedVersions)} : t > 0
====
